---- MODULE Spec2Model ----
(***************************************************************************)
(* Machine-Vision-Flow python backend: the inspection History Ring         *)
(* (core/history_buffer.py), the Image Store (core/image_manager.py), and  *)
(* the vision pipeline orchestrator (services/vision_service.py) with its  *)
(* ROI geometry (api/models.py, core/roi_handler.py).                      *)
(***************************************************************************)
EXTENDS Integers, Sequences, FiniteSets, TLC

\* ------------------------------------------------------------------------
\* Bounds of the model
\* ------------------------------------------------------------------------
\* capacity of the History Ring (HistoryBuffer.max_size)
MaxSize == 2
\* number of records that enter the primary ring over a run
MaxAdds == 3
\* largest value of the wall clock, in ticks
MaxTime == 2
\* timedelta(hours=1) expressed in clock ticks
HourTicks == 2

\* Python's None, and a base64 string, as values TLC can compare with records
\* count budget of the Image Store (ImageManager max_images)
MaxImages == 2
\* byte budget of the Image Store (ImageManager max_size_mb, in bytes)
MaxBytes == 4
\* number of Image Store operations over a run
MaxOps == 5
\* number of images the camera captures while detection requests run
MaxCaptures == 2
\* number of detection requests over a run
MaxRequests == 1
\* largest ROI origin coordinate used as a remap offset
MaxOffset == 2
\* largest number of objects in a remapped detector result
MaxObjects == 2
\* number of MJPEG stream requests over a run
MaxStreams == 3
\* number of threads that add to the History Ring concurrently (K)
NumThreads == 2
\* number of adds each of these threads makes (M)
AddsPerThread == 2
\* largest grey level of a pixel in a matched image
MaxPixel == 2
\* largest width of a one-row search image
MaxRow == 3
\* largest width of a one-row template
MaxTemplateRow == 2
\* input angles span this many full turns on either side of zero
MaxTurns == 2
\* largest number of points of a contour sent for rotation analysis
MaxContourPoints == 6
\* largest interval_minutes of a time series request
MaxInterval == 8
\* largest duration_hours of a time series request
MaxDuration == 2
\* largest coordinate and extent of a clipped rectangle and of its image
MaxCoord == 3
\* largest number of markers, or of contours, found in one image
MaxFound == 3
\* largest marker id printed on a marker in the image
MaxMarkerId == 3
\* largest number of ring records a failure analysis reads
MaxAnalysed == 2

None == [none |-> TRUE]
b64(str) == [base64 |-> str]

Min(a, b) == IF a <= b THEN a ELSE b
Max(a, b) == IF a >= b THEN a ELSE b

\* ------------------------------------------------------------------------
\* History Ring: core/history_buffer.py
\* ------------------------------------------------------------------------

\* the (result, detections, processing_time_ms, thumbnail) payloads callers
\* hand to add_inspection
AddInputs ==
    { [result |-> "PASS",  detections |-> << [name |-> "a", found |-> TRUE] >>,
       processing_time_ms |-> 5, thumbnail_base64 |-> b64("thumb")],
      [result |-> "FAIL",  detections |-> << [name |-> "a", found |-> FALSE] >>,
       processing_time_ms |-> 3, thumbnail_base64 |-> None],
      [result |-> "ERROR", detections |-> << >>,
       processing_time_ms |-> 0, thumbnail_base64 |-> None] }

\* HistoryBuffer.__init__
HistoryBuffer(max_size) ==
    [ max_size              |-> max_size,
      buffer                |-> << >>,
      total_inspections     |-> 0,
      pass_count            |-> 0,
      fail_count            |-> 0,
      error_count           |-> 0,
      total_processing_time |-> 0 ]

\* deque(maxlen=max_size).append: a full deque drops its leftmost item
deque_append(buf, maxlen, rec) ==
    IF maxlen = 0 THEN << >>
    ELSE IF Len(buf) >= maxlen
         THEN Append(SubSeq(buf, Len(buf) - maxlen + 2, Len(buf)), rec)
         ELSE Append(buf, rec)

RECURSIVE count_found(_)
\* sum(1 for d in detections if d.get("found", False))
count_found(dets) ==
    IF dets = << >> THEN 0
    ELSE (IF "found" \in DOMAIN Head(dets) /\ Head(dets).found THEN 1 ELSE 0)
         + count_found(Tail(dets))

\* f"{passed}/{total} checks passed"
summary_of(dets) == << count_found(dets), "/", Len(dets), " checks passed" >>

add_inspection_drops_other(h, id, ts, image_id, inp) ==
    LET record == [ id |-> id, timestamp |-> ts, image_id |-> image_id,
                    result |-> inp.result, summary |-> summary_of(inp.detections),
                    thumbnail_base64 |-> inp.thumbnail_base64,
                    processing_time_ms |-> inp.processing_time_ms,
                    detections |-> inp.detections, metadata |-> << >> ]
    IN [ h EXCEPT
           !.buffer = deque_append(h.buffer, h.max_size, record),
           !.total_inspections = @ + 1,
           !.total_processing_time = @ + inp.processing_time_ms,
           !.pass_count = IF inp.result = "PASS" THEN @ + 1 ELSE @,
           !.fail_count = IF inp.result = "FAIL" THEN @ + 1 ELSE @ ]

add_inspection_decrements(h, id, ts, image_id, inp) ==
    LET record == [ id |-> id, timestamp |-> ts, image_id |-> image_id,
                    result |-> inp.result, summary |-> summary_of(inp.detections),
                    thumbnail_base64 |-> inp.thumbnail_base64,
                    processing_time_ms |-> inp.processing_time_ms,
                    detections |-> inp.detections, metadata |-> << >> ]
        full == Len(h.buffer) >= h.max_size
    IN [ h EXCEPT
           !.buffer = deque_append(h.buffer, h.max_size, record),
           !.total_inspections = IF full THEN @ ELSE @ + 1,
           !.total_processing_time = @ + inp.processing_time_ms,
           !.pass_count = IF inp.result = "PASS" /\ ~full THEN @ + 1 ELSE @,
           !.fail_count = IF inp.result = "FAIL" /\ ~full THEN @ + 1 ELSE @,
           !.error_count = IF inp.result \notin {"PASS", "FAIL"} /\ ~full
                           THEN @ + 1 ELSE @ ]

\* HistoryBuffer.add_inspection, under self.lock; id is the fresh
\* hist_<uuid> and ts is datetime.now()
add_inspection(h, id, ts, image_id, inp) ==
    LET record == [ id |-> id, timestamp |-> ts, image_id |-> image_id,
                    result |-> inp.result, summary |-> summary_of(inp.detections),
                    thumbnail_base64 |-> inp.thumbnail_base64,
                    processing_time_ms |-> inp.processing_time_ms,
                    detections |-> inp.detections, metadata |-> << >> ]
    IN [ h EXCEPT
           !.buffer = deque_append(h.buffer, h.max_size, record),
           !.total_inspections = @ + 1,
           !.total_processing_time = @ + inp.processing_time_ms,
           !.pass_count = IF inp.result = "PASS" THEN @ + 1 ELSE @,
           !.fail_count = IF inp.result = "FAIL" THEN @ + 1 ELSE @,
           !.error_count = IF inp.result \notin {"PASS", "FAIL"} THEN @ + 1 ELSE @ ]

\* HistoryBuffer.get_inspection: first record with that id, else None
get_inspection(h, inspection_id) ==
    IF \E i \in 1..Len(h.buffer) : h.buffer[i].id = inspection_id
    THEN h.buffer[CHOOSE i \in 1..Len(h.buffer) :
                     /\ h.buffer[i].id = inspection_id
                     /\ \A j \in 1..(i-1) : h.buffer[j].id # inspection_id]
    ELSE None

clear_keeps_elapsed(h) ==
    [ h EXCEPT !.buffer = << >>, !.total_inspections = 0, !.pass_count = 0,
               !.fail_count = 0, !.error_count = 0 ]

\* HistoryBuffer.clear
clear(h) ==
    [ h EXCEPT !.buffer = << >>, !.total_inspections = 0, !.pass_count = 0,
               !.fail_count = 0, !.error_count = 0, !.total_processing_time = 0 ]

RECURSIVE sort_newest_first(_)
\* list.sort(key=timestamp, reverse=True): a stable sort, so records with the
\* same timestamp keep the order they had in the ring
sort_newest_first(recs) ==
    IF recs = << >> THEN << >>
    ELSE LET i == CHOOSE k \in 1..Len(recs) :
                    /\ \A j \in 1..Len(recs) :
                         recs[j].timestamp <= recs[k].timestamp
                    /\ \A j \in 1..(k - 1) :
                         recs[j].timestamp < recs[k].timestamp
         IN << recs[i] >> \o sort_newest_first(SubSeq(recs, 1, i - 1) \o
                                               SubSeq(recs, i + 1, Len(recs)))

\* HistoryBuffer.get_recent(limit, result_filter), for limit >= 0; a
\* result_filter of None keeps every record
get_recent(h, limit, result_filter) ==
    LET records  == IF result_filter # None
                    THEN SelectSeq(h.buffer,
                                   LAMBDA r : r.result = result_filter.str)
                    ELSE h.buffer
        sorted   == sort_newest_first(records)
    IN SubSeq(sorted, 1, Min(limit, Len(sorted)))

\* round(num / den * scale, 2), in hundredths; halves go to the even
\* neighbour as Python's round does for exactly representable values
round2(num, den) ==
    LET q == (num * 100) \div den
        r == (num * 100) % den
    IN IF 2 * r > den THEN q + 1
       ELSE IF 2 * r < den THEN q
       ELSE IF q % 2 = 0 THEN q ELSE q + 1

RECURSIVE count_where(_, _)
count_where(recs, results) ==
    IF recs = << >> THEN 0
    ELSE (IF Head(recs).result \in results THEN 1 ELSE 0)
         + count_where(Tail(recs), results)

\* HistoryBuffer.get_statistics at wall-clock time t
get_statistics(h, t) ==
    IF h.total_inspections = 0
    THEN [ total |-> 0, passed |-> 0, failed |-> 0, errors |-> 0,
           success_rate |-> 0, avg_time_ms |-> 0, buffer_usage |-> 0 ]
    ELSE LET recent_records == SelectSeq(h.buffer,
                                   LAMBDA r : r.timestamp > t - HourTicks)
         IN [ total |-> h.total_inspections,
              passed |-> h.pass_count,
              failed |-> h.fail_count,
              errors |-> h.error_count,
              success_rate |-> round2(h.pass_count * 100, h.total_inspections),
              avg_time_ms |-> round2(h.total_processing_time, h.total_inspections),
              buffer_usage |-> Len(h.buffer),
              buffer_max |-> h.max_size,
              recent_hour |-> [ total |-> Len(recent_records),
                                passed |-> count_where(recent_records, {"PASS"}),
                                failed |-> count_where(recent_records, {"FAIL"}) ] ]

\* datetime.isoformat / datetime.fromisoformat
isoformat(ts) == << "iso", ts >>
fromisoformat(s) == s[2]

\* HistoryBuffer.export_to_dict at wall-clock time t: the thumbnail is not
\* among the exported keys
export_to_dict(h, t) ==
    [ inspections |->
        [ i \in 1..Len(h.buffer) |->
            [ id |-> h.buffer[i].id,
              timestamp |-> isoformat(h.buffer[i].timestamp),
              image_id |-> h.buffer[i].image_id,
              result |-> h.buffer[i].result,
              summary |-> h.buffer[i].summary,
              processing_time_ms |-> h.buffer[i].processing_time_ms,
              detections |-> h.buffer[i].detections,
              metadata |-> h.buffer[i].metadata ] ],
      statistics |-> get_statistics(h, t) ]

RECURSIVE import_records(_, _)
\* the loop of import_from_dict over data["inspections"]
import_records(h, recs) ==
    IF recs = << >> THEN h
    ELSE LET d == Head(recs)
             record == [ id |-> d.id,
                         timestamp |-> fromisoformat(d.timestamp),
                         image_id |-> d.image_id,
                         result |-> d.result,
                         summary |-> d.summary,
                         thumbnail_base64 |-> None,
                         processing_time_ms |-> d.processing_time_ms,
                         detections |-> d.detections,
                         metadata |-> d.metadata ]
             h1 == [ h EXCEPT
                       !.buffer = deque_append(h.buffer, h.max_size, record),
                       !.total_inspections = @ + 1,
                       !.pass_count = IF d.result = "PASS" THEN @ + 1 ELSE @,
                       !.fail_count = IF d.result = "FAIL" THEN @ + 1 ELSE @,
                       !.error_count = IF d.result \notin {"PASS", "FAIL"}
                                       THEN @ + 1 ELSE @ ]
         IN import_records(h1, Tail(recs))

\* HistoryBuffer.import_from_dict: clear, then append and count every record
import_from_dict(h, data) == import_records(clear(h), data.inspections)

\* ------------------------------------------------------------------------
\* Image Store: core/image_manager.py (ImageManager), after spec section 4.2
\* ------------------------------------------------------------------------

\* ImageConstants.LRU_EVICTION_BATCH_SIZE
LRU_EVICTION_BATCH_SIZE == 5

\* bytes per sample of a uint8 pixel buffer
SampleBytes == 1

\* pixel buffers handed to the store: (height, width, channels)
Shapes ==
    { [height |-> k, width |-> 1, channels |-> 1] : k \in 1..(MaxBytes + 1) }
    \cup { [height |-> 1, width |-> 1, channels |-> 3] }

\* byte_cost = height * width * channels * sample_bytes
byte_cost(shape) == shape.height * shape.width * shape.channels * SampleBytes

RECURSIVE total_bytes(_)
\* sum of the byte costs of the stored entries
total_bytes(imgs) ==
    IF DOMAIN imgs = {} THEN 0
    ELSE LET i == CHOOSE k \in DOMAIN imgs : TRUE
         IN imgs[i].cost + total_bytes([k \in DOMAIN imgs \ {i} |-> imgs[k]])

over_limit_count_only(imgs) == Cardinality(DOMAIN imgs) > MaxImages

\* count > max_images or bytes > max_bytes
over_limit(imgs) ==
    \/ Cardinality(DOMAIN imgs) > MaxImages
    \/ total_bytes(imgs) > MaxBytes

fifo_id(imgs) ==
    CHOOSE i \in DOMAIN imgs : \A k \in DOMAIN imgs : imgs[i].inserted <= imgs[k].inserted

\* the entry that was accessed least recently
lru_id(imgs) ==
    CHOOSE i \in DOMAIN imgs : \A k \in DOMAIN imgs : imgs[i].accessed <= imgs[k].accessed

drop(imgs, i) == [k \in DOMAIN imgs \ {i} |-> imgs[k]]

RECURSIVE evict_batch(_, _)
\* one eviction batch: up to n least-recently-accessed entries, while a limit
\* is exceeded
evict_batch(imgs, n) ==
    IF n = 0 \/ DOMAIN imgs = {} \/ ~over_limit(imgs) THEN imgs
    ELSE evict_batch(drop(imgs, lru_id(imgs)), n - 1)

RECURSIVE evict(_)
\* eviction after an insert: batches until count <= max_images and
\* bytes <= max_bytes
evict(imgs) ==
    IF DOMAIN imgs = {} \/ ~over_limit(imgs) THEN imgs
    ELSE evict(evict_batch(imgs, LRU_EVICTION_BATCH_SIZE))

insert(imgs, id, shape, t) ==
    [k \in DOMAIN imgs \cup {id} |->
        IF k = id THEN [ shape |-> shape, cost |-> byte_cost(shape),
                         inserted |-> t, accessed |-> t ]
        ELSE imgs[k]]

store_rejects_equal(imgs, id, shape, t) ==
    IF byte_cost(shape) >= MaxBytes
    THEN [ images |-> imgs, result |-> "CapacityExceeded" ]
    ELSE [ images |-> evict(insert(imgs, id, shape, t)), result |-> "ok" ]

\* put(buffer, metadata) -> id (ImageManager.store): reject only an entry
\* whose own cost exceeds max_bytes, else insert and evict at once
store(imgs, id, shape, t) ==
    IF byte_cost(shape) > MaxBytes
    THEN [ images |-> imgs, result |-> "CapacityExceeded" ]
    ELSE [ images |-> evict(insert(imgs, id, shape, t)), result |-> "ok" ]

\* get(id) -> buffer or None (ImageManager.get): a hit touches the access time
get(imgs, id, t) ==
    IF id \in DOMAIN imgs
    THEN [ images |-> [imgs EXCEPT ![id].accessed = t], image |-> imgs[id].shape ]
    ELSE [ images |-> imgs, image |-> None ]

RECURSIVE cleanup(_, _)
\* cleanup(): opportunistic eviction, also below the limits, of the n
\* least-recently-accessed entries
cleanup(imgs, n) ==
    IF n = 0 \/ DOMAIN imgs = {} THEN imgs
    ELSE cleanup(drop(imgs, lru_id(imgs)), n - 1)

\* ------------------------------------------------------------------------
\* Geometry: api/models.py (ROI), core/roi_handler.py (ROIHandler)
\* ------------------------------------------------------------------------

\* an exception of the given class, as a value
Raise(kind) == [raised |-> kind]
IsRaise(v) == "raised" \in DOMAIN v

Abs(n) == IF n < 0 THEN -n ELSE n

\* models.ROI(x=, y=, width=, height=): pydantic rejects x < 0, y < 0 (ge=0)
\* and width <= 0, height <= 0 (gt=0) with a ValidationError
ROI(x, y, width, height) ==
    IF x >= 0 /\ y >= 0 /\ width > 0 /\ height > 0
    THEN [x |-> x, y |-> y, width |-> width, height |-> height]
    ELSE Raise("ValidationError")

\* models.ROI.from_dict
from_dict(data) == ROI(data.x, data.y, data.width, data.height)

\* models.ROI.from_points
from_points(x1, y1, x2, y2) ==
    ROI(Min(x1, x2), Min(y1, y2), Abs(x2 - x1), Abs(y2 - y1))

\* models.ROI.clip
clip(roi, image_width, image_height) ==
    LET x  == Max(0, Min(roi.x, image_width))
        y  == Max(0, Min(roi.y, image_height))
        x2 == Max(0, Min(roi.x + roi.width, image_width))
        y2 == Max(0, Min(roi.y + roi.height, image_height))
    IN from_points(x, y, x2, y2)

\* models.ROI.is_valid(image_width, image_height)
is_valid(roi, image_width, image_height) ==
    /\ ~(roi.width <= 0 \/ roi.height <= 0)
    /\ ~(roi.x < 0 \/ roi.y < 0)
    /\ ~(roi.x + roi.width > image_width)
    /\ ~(roi.y + roi.height > image_height)

\* ROIHandler.extract_roi(image, roi, safe_mode=True) for a ROI object: the
\* shape of the copied sub-image, None, or the exception clip raised
extract_roi(image, roi) ==
    LET c == clip(roi, image.width, image.height)
    IN IF IsRaise(c) THEN c
       ELSE IF c.width <= 0 \/ c.height <= 0 THEN None
       ELSE [height |-> c.height, width |-> c.width, channels |-> image.channels]

\* ------------------------------------------------------------------------
\* Detection results: api/models.py (VisionObject), vision/*.py
\* ------------------------------------------------------------------------

Point(x, y) == [x |-> x, y |-> y]

\* a Python list, as a value that can stand where None can
List(items) == [items |-> items]

\* Python truth value of an Optional[List]
truthy(lst) == "items" \in DOMAIN lst /\ lst.items # << >>

\* models.VisionObject(...), with the fields no detector fills left at None
VisionObject(object_id, object_type, bounding_box, center, rotation, properties, contour) ==
    [ object_id |-> object_id, object_type |-> object_type,
      bounding_box |-> bounding_box, center |-> center,
      confidence |-> 1, area |-> 4, perimeter |-> None,
      rotation |-> rotation, properties |-> properties, contour |-> contour ]

\* the objects the detectors build, in the coordinates of the image they
\* were handed
match_0 ==
    VisionObject("match_0", "template_match", ROI(0, 0, 1, 1), Point(0, 0),
                 0, [template_id |-> "tpl1"], None)
contour_0 ==
    VisionObject("contour_0", "edge_contour", ROI(0, 0, 1, 1), Point(0, 0),
                 0, [method |-> "canny"],
                 List(<< <<0, 0>>, <<1, 0>>, <<1, 1>> >>))
contour_1 ==
    VisionObject("contour_1", "edge_contour", ROI(1, 0, 1, 1), Point(1, 0),
                 0, [method |-> "canny"], List(<< >>))
aruco_7 ==
    VisionObject("aruco_7", "aruco_marker", ROI(0, 0, 1, 1), Point(0, 0),
                 90, [marker_id |-> 7], None)
\* ColorDetector.detect builds one object whatever it measured; match is
\* False when no colour is expected, when the dominant colour has another
\* name, and when its percentage is below min_percentage
color_0(dominant_color, dominant_percentage, expected_color, min_percentage) ==
    VisionObject("color_0", "color_region", ROI(0, 0, 1, 1), Point(0, 0), 0,
                 [ dominant_color |-> dominant_color,
                   percentage |-> dominant_percentage,
                   expected_color |-> expected_color,
                   match |-> /\ expected_color # None
                             /\ dominant_color = expected_color.str
                             /\ dominant_percentage >= min_percentage ],
                 None)
rotation_analysis ==
    VisionObject("rotation_analysis", "rotation_analysis", ROI(0, 0, 1, 1),
                 Point(0, 0), 45, [method |-> "min_area_rect"],
                 List(<< <<0, 0>>, <<1, 0>>, <<1, 1>> >>))

Detectors == {"template_match", "edge_detect", "color_detect",
              "aruco_detect", "rotation_detect"}

\* what detector_func(image) can do on an image: return a result dictionary
\* or raise (RotationDetector.detect returns one object or a ValueError)
DetectorOutcomes(detector) ==
    {Raise("DetectorError")} \cup
    CASE detector = "template_match" ->
           { [objects |-> << >>], [objects |-> << match_0 >>] }
      [] detector = "edge_detect" ->
           { [objects |-> << >>], [objects |-> << contour_0 >>],
             [objects |-> << contour_0, contour_1 >>] }
      [] detector = "aruco_detect" ->
           { [objects |-> << >>], [objects |-> << aruco_7 >>] }
      [] detector = "rotation_detect" ->
           { [objects |-> << rotation_analysis >>] }

\* ColorDetectionDefaults.MIN_PERCENTAGE, in percent
MIN_PERCENTAGE == 50

\* the dominant colours and their percentages a colour analysis can find
DominantColors == {"red", "blue"}
DominantPercentages == {40, 60}

\* what color_detect's detector_func can do: ColorDetector.detect with the
\* request's expected_color and min_percentage, or an exception
ColorOutcomes(expected_color, min_percentage) ==
    {Raise("DetectorError")} \cup
    { [objects |-> << color_0(c, p, expected_color, min_percentage) >>] :
        c \in DominantColors, p \in DominantPercentages }

\* ------------------------------------------------------------------------
\* Coordinate remap: services/vision_service.py, core/utils/coordinate_adjuster.py
\* ------------------------------------------------------------------------

adjust_object_coordinates_skips_contour(obj, roi_offset) ==
    [ obj EXCEPT !.bounding_box.x = @ + roi_offset[1],
                 !.bounding_box.y = @ + roi_offset[2],
                 !.center.x = @ + roi_offset[1],
                 !.center.y = @ + roi_offset[2] ]

\* VisionService._adjust_object_coordinates
adjust_object_coordinates(obj, roi_offset) ==
    [ obj EXCEPT !.bounding_box.x = @ + roi_offset[1],
                 !.bounding_box.y = @ + roi_offset[2],
                 !.center.x = @ + roi_offset[1],
                 !.center.y = @ + roi_offset[2],
                 !.contour = IF truthy(@)
                             THEN List([i \in DOMAIN @.items |->
                                          << @.items[i][1] + roi_offset[1],
                                             @.items[i][2] + roi_offset[2] >>])
                             ELSE @ ]

\* VisionService._adjust_coordinates_for_roi on a result dictionary
adjust_coordinates_for_roi(result, roi_offset) ==
    IF "objects" \in DOMAIN result
    THEN [ result EXCEPT !.objects =
             [i \in DOMAIN @ |-> adjust_object_coordinates(@[i], roi_offset)] ]
    ELSE result

\* CoordinateAdjuster.adjust_for_roi_offset: the objects after the call
adjust_for_roi_offset(objects, roi_offset) ==
    IF roi_offset = << 0, 0 >> THEN objects
    ELSE [i \in DOMAIN objects |->
            [ objects[i] EXCEPT
                !.bounding_box.x = @ + roi_offset[1],
                !.bounding_box.y = @ + roi_offset[2],
                !.center.x = @ + roi_offset[1],
                !.center.y = @ + roi_offset[2],
                !.contour = IF truthy(@)
                            THEN List([j \in DOMAIN @.items |->
                                         << @.items[j][1] + roi_offset[1],
                                            @.items[j][2] + roi_offset[2] >>])
                            ELSE @ ] ]

\* ------------------------------------------------------------------------
\* Detection orchestrator and service facade: services/vision_service.py
\* ------------------------------------------------------------------------

\* the template ids the template manager knows
Templates == {"tpl1"}

\* what image_manager.create_thumbnail and the timer give for every call
Thumbnail == b64("thumb")
ElapsedMs == 1

\* how a service call ends: the stores after it, the exception that left it
\* ("none" when it returned), what it returned, and whether detector_func
\* was called and image_manager.get was called by _execute_detection
Ended(imgs, h, t, raised, result, raw, invoked, fetched) ==
    [ images |-> imgs, hb |-> h, clock |-> t, raised |-> raised,
      result |-> result, raw |-> raw, invoked |-> invoked,
      fetched |-> fetched,
      thumbnail |-> IF raised = "none" THEN Thumbnail ELSE None,
      ms |-> IF raised = "none" THEN ElapsedMs ELSE 0 ]

record_detection_history_always_pass(h, id, ts, image_id, result, detection_type, processing_time_ms, thumbnail) ==
    LET object_count == IF "objects" \in DOMAIN result
                        THEN Len(result.objects) ELSE 0
    IN add_inspection(h, id, ts, image_id,
         [ result |-> "PASS",
           detections |-> << [ type |-> detection_type,
                               found |-> object_count > 0,
                               count |-> object_count ] >>,
           processing_time_ms |-> processing_time_ms,
           thumbnail_base64 |-> thumbnail ])

record_detection_history_skips(h, id, ts, image_id, result, detection_type, processing_time_ms, thumbnail) ==
    h

\* VisionService._record_detection_history
record_detection_history(h, id, ts, image_id, result, detection_type, processing_time_ms, thumbnail) ==
    LET object_count == IF "objects" \in DOMAIN result
                        THEN Len(result.objects) ELSE 0
    IN add_inspection(h, id, ts, image_id,
         [ result |-> IF object_count > 0 THEN "PASS" ELSE "FAIL",
           detections |-> << [ type |-> detection_type,
                               found |-> object_count > 0,
                               count |-> object_count ] >>,
           processing_time_ms |-> processing_time_ms,
           thumbnail_base64 |-> thumbnail ])

\* VisionService._execute_detection from the ROI extraction on, with the
\* fetched full_image; detector_func is what the detector does if it is
\* called on an image
detect_in_image(imgs, h, t, id, ts, image_id, full_image, detector_func, roi, record_history, history_type) ==
    LET roi_obj    == IF roi # None THEN from_dict(roi) ELSE None
        image      == IF roi = None THEN full_image
                      ELSE IF IsRaise(roi_obj) THEN roi_obj
                      ELSE extract_roi(full_image, roi_obj)
        roi_offset == IF roi # None THEN << roi_obj.x, roi_obj.y >>
                      ELSE << 0, 0 >>
        raw        == IF image = None THEN Raise("AttributeError")
                      ELSE detector_func
        result     == IF roi_offset # << 0, 0 >>
                      THEN adjust_coordinates_for_roi(raw, roi_offset)
                      ELSE raw
    IN IF IsRaise(image)
       THEN Ended(imgs, h, t, image.raised, None, None, FALSE, TRUE)
       ELSE IF IsRaise(raw)
       THEN Ended(imgs, h, t, raw.raised, None, None, TRUE, TRUE)
       ELSE Ended(imgs,
                  IF record_history
                  THEN record_detection_history(h, id, ts, image_id, result,
                                                history_type, ElapsedMs,
                                                Thumbnail)
                  ELSE h,
                  t, "none", result, raw, TRUE, TRUE)

execute_detection_without_fetch_check(imgs, h, t, id, ts, image_id, detector_func, roi, record_history, history_type) ==
    LET g == get(imgs, image_id, t + 1)
    IN detect_in_image(g.images, h, t + 1, id, ts, image_id,
                       IF g.image = None
                       THEN [height |-> 1, width |-> 1, channels |-> 1]
                       ELSE g.image,
                       detector_func, roi, record_history, history_type)

\* VisionService._execute_detection: the image is fetched at store time
\* t + 1
execute_detection(imgs, h, t, id, ts, image_id, detector_func, roi, record_history, history_type) ==
    LET g == get(imgs, image_id, t + 1)
    IN IF g.image = None
       THEN Ended(g.images, h, t + 1, "ImageNotFoundException", None, None,
                  FALSE, TRUE)
       ELSE detect_in_image(g.images, h, t + 1, id, ts, image_id, g.image,
                            detector_func, roi, record_history, history_type)

\* an Optional[str] that is given
Str(chars) == [str |-> chars]

\* VisionService.template_match
template_match(imgs, h, t, id, ts, image_id, template_id, roi, record_history, detector_func) ==
    IF template_id \notin Templates
    THEN Ended(imgs, h, t, "TemplateNotFoundException", None, None,
               FALSE, FALSE)
    ELSE LET r == execute_detection(imgs, h, t, id, ts, image_id,
                                    detector_func, roi, FALSE, "template_match")
             detected_objects == r.result.objects
         IN IF r.raised # "none" \/ ~record_history THEN r
            ELSE [ r EXCEPT !.hb = add_inspection(r.hb, id, ts, image_id,
                     [ result |-> IF detected_objects # << >>
                                  THEN "PASS" ELSE "FAIL",
                       detections |-> <<
                         [ type |-> "template_match",
                           template_id |-> template_id,
                           found |-> Len(detected_objects) > 0,
                           confidence |-> IF detected_objects # << >>
                                          THEN detected_objects[1].confidence
                                          ELSE 0,
                           count |-> Len(detected_objects) ] >>,
                       processing_time_ms |-> r.ms,
                       thumbnail_base64 |-> r.thumbnail ]) ]

\* VisionService.edge_detect
edge_detect(imgs, h, t, id, ts, image_id, roi, record_history, detector_func) ==
    execute_detection(imgs, h, t, id, ts, image_id, detector_func, roi,
                      record_history, "edge_detection")

\* VisionService.aruco_detect
aruco_detect(imgs, h, t, id, ts, image_id, roi, record_history, detector_func) ==
    execute_detection(imgs, h, t, id, ts, image_id, detector_func, roi,
                      record_history, "aruco_detection")

\* VisionService.color_detect: the ROI goes to the detector, not to
\* _execute_detection
color_detect(imgs, h, t, id, ts, image_id, roi, expected_color, record_history, detector_func) ==
    LET r == execute_detection(imgs, h, t, id, ts, image_id, detector_func,
                               None, FALSE, "color_detection")
        detected_object == r.result.objects[1]
        is_match == detected_object.properties.match
    IN IF r.raised # "none" \/ ~record_history THEN r
       ELSE [ r EXCEPT !.hb = add_inspection(r.hb, id, ts, image_id,
                [ result |-> IF is_match \/ expected_color = None
                             THEN "PASS" ELSE "FAIL",
                  detections |-> <<
                    [ type |-> "color_detection",
                      dominant_color |-> detected_object.properties.dominant_color,
                      expected_color |-> expected_color,
                      match |-> is_match,
                      confidence |-> detected_object.confidence ] >>,
                  processing_time_ms |-> r.ms,
                  thumbnail_base64 |-> r.thumbnail ]) ]

\* VisionService.rotation_detect: the ROI goes to the detector; the record
\* is built after "from api.models import InspectionResult", a name that
\* api/models.py does not define, so the import resolves only where another
\* api.models is installed (import_resolves); otherwise it raises ImportError
rotation_detect(imgs, h, t, id, ts, image_id, roi, record_history, import_resolves, detector_func) ==
    LET r == execute_detection(imgs, h, t, id, ts, image_id, detector_func,
                               None, FALSE, "rotation_analysis")
        detected_object == r.result.objects[1]
    IN IF r.raised # "none" \/ ~record_history THEN r
       ELSE IF ~import_resolves
       THEN Ended(r.images, r.hb, r.clock, "ImportError", None, r.raw,
                  TRUE, TRUE)
       ELSE [ r EXCEPT !.hb = add_inspection(r.hb, id, ts, image_id,
                [ result |-> "PASS",
                  detections |-> <<
                    [ type |-> "rotation_analysis",
                      rotation |-> detected_object.rotation,
                      method |-> "min_area_rect",
                      confidence |-> detected_object.confidence ] >>,
                  processing_time_ms |-> r.ms,
                  thumbnail_base64 |-> r.thumbnail ]) ]

\* dependencies.validate_vision_request (validate_image_exists, then
\* validate_roi_bounds when a ROI is given): each check fetches the image
validate_vision_request(imgs, t, image_id, roi) ==
    LET g1 == get(imgs, image_id, t + 1)
        g2 == get(g1.images, image_id, t + 2)
    IN IF g1.image = None
       THEN [ images |-> g1.images, clock |-> t + 1, raised |-> "HTTP404" ]
       ELSE IF roi = None
       THEN [ images |-> g1.images, clock |-> t + 1, raised |-> "none" ]
       ELSE IF g2.image = None
       THEN [ images |-> g2.images, clock |-> t + 2, raised |-> "HTTP404" ]
       ELSE IF ~is_valid(from_dict(roi), g2.image.width, g2.image.height)
       THEN [ images |-> g2.images, clock |-> t + 2, raised |-> "HTTP400" ]
       ELSE [ images |-> g2.images, clock |-> t + 2, raised |-> "none" ]

\* the error kind a client sees: the service's own exception classes and the
\* pre-check's status codes name their kind, anything else reaches the global
\* handler of main.py and is answered with status 500
kind_of(raised) ==
    CASE raised \in {"ImageNotFoundException", "HTTP404"} -> "ImageNotFound"
      [] raised = "TemplateNotFoundException" -> "TemplateNotFound"
      [] raised = "HTTP400" -> "InvalidROI"
      [] raised = "none" -> "none"
      [] OTHER -> "InternalError"

\* ------------------------------------------------------------------------
\* State
\* ------------------------------------------------------------------------
VARIABLES
    hb,        \* the process-wide HistoryBuffer (main.py: history_buffer)
    now,       \* datetime.now(), in ticks
    next_id,   \* number of hist_<uuid> ids generated so far
    log,       \* records appended to hb since it was last emptied
    blob,      \* the last dictionary returned by export_to_dict, or None
    src,       \* hb as it was when blob was exported
    hb2,       \* a second ring, built by importing blob into a new ring
    images,    \* the Image Store: image id -> entry
    sclock,    \* the Image Store's access clock (one tick per operation)
    next_img,  \* number of image ids generated so far
    last_put,  \* cost, id and result of the last put, or None
    last_evicted,  \* the entries the last put or cleanup removed
    req,       \* the detection request in progress, or the last one answered
    nreq,      \* number of detection requests received so far
    remap,     \* a detector result, a ROI offset and the remapped result
    active_streams,  \* camera.py: active_streams, camera id -> bool
    gens,      \* the generate() generators of the stream requests so far
    lock,      \* HistoryBuffer.lock, the RLock: owning thread and depth
    thr,       \* the threads that call the History Ring: thread -> position
    calc       \* a pure computation: its inputs and, once run, its result

hvars == << hb, now, next_id, log, blob, src, hb2 >>
svars == << images, sclock, next_img, last_put, last_evicted >>

vvars == << req, nreq >>
rvars == << remap >>
mvars == << active_streams, gens >>
tvars == << lock, thr >>
\* the variables of the parts added after the detection service
xvars == << mvars, tvars, calc >>
\* the variables the detection service and the parts before it use
bvars == << hvars, svars, vvars, rvars >>

vars == << hb, now, next_id, log, blob, src, hb2,
           images, sclock, next_img, last_put, last_evicted,
           req, nreq, remap, active_streams, gens, lock, thr, calc >>

\* no detection request has been received
VisionInit ==
    /\ req = [pc |-> "idle"]
    /\ nreq = 0

\* no detector result is being remapped
RemapIdle == remap = None

\* camera.py at import: no stream was requested
StreamsInit ==
    /\ active_streams = [k \in {} |-> FALSE]
    /\ gens = << >>

\* HistoryBuffer.__init__: the lock is free; no thread has called the ring
ThreadsInit ==
    /\ lock = [owner |-> 0, depth |-> 0]
    /\ thr = [t \in 1..NumThreads |->
                [pc |-> "idle", left |-> AddsPerThread, loaded |-> 0,
                 exported |-> FALSE]]

\* no pure computation is under way
CalcIdle == calc = None

StoreInit ==
    /\ images = << >>
    /\ sclock = 0
    /\ next_img = 0
    /\ last_put = None
    /\ last_evicted = {}

HistoryInit ==
    /\ StoreInit
    /\ VisionInit
    /\ RemapIdle
    /\ StreamsInit
    /\ ThreadsInit
    /\ CalcIdle
    /\ hb = HistoryBuffer(MaxSize)
    /\ now = 0
    /\ next_id = 0
    /\ log = << >>
    /\ blob = None
    /\ src = None
    /\ hb2 = None

\* time passes between two operations
Tick ==
    /\ now < MaxTime
    /\ now' = now + 1
    /\ UNCHANGED << hb, next_id, log, blob, src, hb2, svars, vvars, rvars, xvars >>

\* a caller runs hb.add_inspection(...)
AddInspection ==
    /\ next_id < MaxAdds
    /\ \E inp \in AddInputs :
         LET h1 == add_inspection(hb, next_id + 1, now, "img1", inp)
         IN /\ hb' = h1
            /\ log' = Append(log, [ id |-> next_id + 1, timestamp |-> now,
                                    image_id |-> "img1", result |-> inp.result,
                                    summary |-> summary_of(inp.detections),
                                    thumbnail_base64 |-> inp.thumbnail_base64,
                                    processing_time_ms |-> inp.processing_time_ms,
                                    detections |-> inp.detections,
                                    metadata |-> << >> ])
    /\ next_id' = next_id + 1
    /\ UNCHANGED << now, blob, src, hb2, svars, vvars, rvars, xvars >>

\* a caller runs hb.clear()
Clear ==
    /\ hb' = clear(hb)
    /\ log' = << >>
    /\ UNCHANGED << now, next_id, blob, src, hb2, svars, vvars, rvars, xvars >>

\* a caller runs hb.export_to_dict()
ExportToDict ==
    /\ blob' = export_to_dict(hb, now)
    /\ src' = hb
    /\ UNCHANGED << hb, now, next_id, log, hb2, svars, vvars, rvars, xvars >>

\* a caller runs hb.import_from_dict(blob)
ImportFromDict ==
    /\ blob # None
    /\ hb' = import_from_dict(hb, blob)
    /\ log' = hb'.buffer
    /\ UNCHANGED << now, next_id, blob, src, hb2, svars, vvars, rvars, xvars >>

\* test_import_export_roundtrip: new_buffer = HistoryBuffer(max_size);
\* new_buffer.import_from_dict(exported)
ImportIntoFresh ==
    /\ blob # None
    /\ hb2' = import_from_dict(HistoryBuffer(MaxSize), blob)
    /\ UNCHANGED << hb, now, next_id, log, blob, src, svars, vvars, rvars, xvars >>

HistoryNext ==
    \/ Tick
    \/ AddInspection
    \/ Clear
    \/ ExportToDict
    \/ ImportFromDict
    \/ ImportIntoFresh

SpecHistory == HistoryInit /\ [][HistoryNext]_vars

\* ------------------------------------------------------------------------
\* Properties of the History Ring
\* ------------------------------------------------------------------------

CountersAddUp(h) == h.pass_count + h.fail_count + h.error_count = h.total_inspections

\* C1: after any sequence of add, clear, import and ring overflow, and between
\* any two operations, pass_count + fail_count + error_count equals
\* total_inspections (in the primary ring and in a ring built by import).
C1_CountersSum ==
    /\ CountersAddUp(hb)
    /\ hb2 # None => CountersAddUp(hb2)

\* C1 witness: the ring has overflowed after adds of all three outcomes, or
\* has been rebuilt by an import of a non-empty blob.
C1_Witness ==
    /\ hb.total_inspections > Len(hb.buffer)
    /\ hb.pass_count > 0 /\ hb.fail_count > 0 /\ hb.error_count > 0

LastN(s, n) == SubSeq(s, Len(s) - n + 1, Len(s))

\* C2: after k appends since the ring was last emptied it holds exactly the
\* most recent min(k, N) records in order, total_inspections = k, and once
\* k > N the first appended record is no longer found by get_inspection.
C2_RingKeepsNewest ==
    /\ hb.buffer = LastN(log, Min(Len(log), hb.max_size))
    /\ hb.total_inspections = Len(log)
    /\ Len(log) > hb.max_size => get_inspection(hb, log[1].id) = None

\* C2 witness: N+1 or more appends happened and the oldest is gone.
C2_Witness ==
    /\ Len(log) = hb.max_size + 1
    /\ Len(hb.buffer) = hb.max_size
    /\ get_inspection(hb, log[1].id) = None
    /\ hb.total_inspections = hb.max_size + 1

StatsFields == {"total", "passed", "failed", "errors", "success_rate",
                "avg_time_ms", "buffer_usage"}

SameStatistics(a, b) == \A f \in StatsFields : a[f] = b[f]

\* C6: a ring built by importing an exported blob into a new
\* ring of the same capacity holds the same records in the same order and
\* reports the same statistics (total, passed, failed, errors, success rate,
\* average time, buffer usage) as the exporting ring did.
C6_RoundTrip ==
    (hb2 # None) =>
        /\ hb2.buffer = src.buffer
        /\ SameStatistics(get_statistics(hb2, now), blob.statistics)

\* ------------------------------------------------------------------------
\* Image Store operations
\* ------------------------------------------------------------------------

\* the (id, inserted, accessed) of the entries of a that are not in b
removed(a, b) ==
    { [ id |-> k, inserted |-> a[k].inserted, accessed |-> a[k].accessed ] :
        k \in DOMAIN a \ DOMAIN b }

\* a caller stores a captured or derived image: id = put(buffer, metadata)
Put ==
    /\ sclock < MaxOps
    /\ \E shape \in Shapes :
         LET id == next_img + 1
             r  == store(images, id, shape, sclock + 1)
         IN /\ images' = r.images
            /\ next_img' = IF r.result = "ok" THEN id ELSE next_img
            /\ last_put' = [ id |-> id, cost |-> byte_cost(shape),
                             result |-> r.result,
                             stored |-> id \in DOMAIN r.images ]
            /\ last_evicted' = IF r.result = "ok"
                               THEN removed(insert(images, id, shape, sclock + 1),
                                            r.images)
                               ELSE {}
    /\ sclock' = sclock + 1
    /\ UNCHANGED << hvars, vvars, rvars, xvars >>

\* a caller reads an image by id (0 is an id that was never issued)
Get ==
    /\ sclock < MaxOps
    /\ \E id \in 0..next_img :
         images' = get(images, id, sclock + 1).images
    /\ sclock' = sclock + 1
    /\ UNCHANGED << next_img, last_put, last_evicted, hvars, vvars, rvars, xvars >>

\* a caller runs cleanup()
Cleanup ==
    /\ sclock < MaxOps
    /\ \E n \in 0..Min(LRU_EVICTION_BATCH_SIZE, Cardinality(DOMAIN images)) :
         /\ images' = cleanup(images, n)
         /\ last_evicted' = removed(images, images')
    /\ sclock' = sclock + 1
    /\ UNCHANGED << next_img, last_put, hvars, vvars, rvars, xvars >>

StoreNext ==
    \/ Put
    \/ Get
    \/ Cleanup

SpecStoreInit ==
    /\ StoreInit
    /\ VisionInit
    /\ RemapIdle
    /\ StreamsInit
    /\ ThreadsInit
    /\ CalcIdle
    /\ hb = HistoryBuffer(MaxSize)
    /\ now = 0
    /\ next_id = 0
    /\ log = << >>
    /\ blob = None
    /\ src = None
    /\ hb2 = None

SpecStore == SpecStoreInit /\ [][StoreNext]_vars

\* ------------------------------------------------------------------------
\* Properties of the Image Store
\* ------------------------------------------------------------------------

\* C3: after every put, get and cleanup, in any order, the byte costs of the
\* stored entries sum to at most max_bytes and at most max_images entries
\* are stored.
C3_StoreWithinLimits ==
    /\ total_bytes(images) <= MaxBytes
    /\ Cardinality(DOMAIN images) <= MaxImages

\* C3 witness: a put has evicted and left the store exactly at its byte
\* budget with more than one entry.
C3_Witness ==
    /\ last_put # None /\ last_put.result = "ok"
    /\ last_evicted # {}
    /\ total_bytes(images) = MaxBytes
    /\ Cardinality(DOMAIN images) = MaxImages

\* C4: whenever a put or cleanup evicts, every evicted entry was last
\* accessed (put or get) no later than every entry that remains stored.
C4_EvictsLeastRecentlyAccessed ==
    \A e \in last_evicted : \A k \in DOMAIN images :
        e.accessed <= images[k].accessed

\* C4 witness: an eviction spared an entry that was inserted before the
\* evicted one but read by get after it.
C4_Witness ==
    \E e \in last_evicted : \E k \in DOMAIN images :
        /\ images[k].inserted < e.inserted
        /\ images[k].accessed > e.accessed

\* C5: put fails with CapacityExceeded exactly when the new entry's own byte
\* cost is strictly greater than max_bytes; every other put succeeds and the
\* new entry is stored, the eviction having removed other entries only.
C5_PutRejectsOnlyOversize ==
    (last_put # None) =>
        /\ (last_put.result = "CapacityExceeded") <=> (last_put.cost > MaxBytes)
        /\ (last_put.cost <= MaxBytes) => (last_put.result = "ok" /\ last_put.stored)

\* C5 witness: an entry whose cost equals max_bytes was put into a store
\* that held entries, and it is now the only entry.
C5_Witness ==
    /\ last_put # None /\ last_put.result = "ok"
    /\ last_put.cost = MaxBytes
    /\ last_evicted # {}
    /\ DOMAIN images = {last_put.id}

\* C5 second case reached: an oversize put was rejected.
C5_RejectReached ==
    /\ last_put # None /\ last_put.result = "CapacityExceeded"
    /\ last_put.cost > MaxBytes

\* ------------------------------------------------------------------------
\* Detection requests
\* ------------------------------------------------------------------------

\* the frames a camera delivers: 2x2 grayscale and 1x1 colour
CaptureShapes ==
    { [height |-> 2, width |-> 2, channels |-> 1],
      [height |-> 1, width |-> 1, channels |-> 3] }

\* the ROI dictionaries requests carry (None: no ROI)
RoiInputs ==
    { None,
      [x |-> 0, y |-> 0, width |-> 1, height |-> 1],
      [x |-> 1, y |-> 0, width |-> 1, height |-> 1],
      [x |-> 2, y |-> 0, width |-> 1, height |-> 1],
      [x |-> 1, y |-> 1, width |-> 2, height |-> 2] }

\* POST /capture: the captured frame is stored under a new image id
Capture ==
    /\ next_img < MaxCaptures
    /\ \E shape \in CaptureShapes :
         LET id == next_img + 1
             r  == store(images, id, shape, sclock + 1)
         IN /\ images' = r.images
            /\ next_img' = IF r.result = "ok" THEN id ELSE next_img
            /\ last_put' = [ id |-> id, cost |-> byte_cost(shape),
                             result |-> r.result,
                             stored |-> id \in DOMAIN r.images ]
            /\ last_evicted' = IF r.result = "ok"
                               THEN removed(insert(images, id, shape, sclock + 1),
                                            r.images)
                               ELSE {}
    /\ sclock' = sclock + 1
    /\ UNCHANGED << hvars, vvars, rvars, xvars >>

\* a detection request arrives, over HTTP (the dependencies pre-check it) or
\* as a direct call of the service; image id 0 was never issued
NewRequest ==
    /\ req.pc \in {"idle", "done"}
    /\ nreq < MaxRequests
    /\ \E detector \in Detectors, image_id \in 0..next_img, roi \in RoiInputs,
          record_history \in BOOLEAN, via \in {"http", "direct"} :
         \E template_id \in IF detector = "template_match"
                            THEN {"tpl1", "tpl0"} ELSE {""},
            expected_color \in IF detector = "color_detect"
                               THEN {None, Str("red")} ELSE {None},
            import_resolves \in IF detector = "rotation_detect" /\ record_history
                                THEN BOOLEAN ELSE {TRUE} :
           req' = [ pc |-> IF via = "http" THEN "received" ELSE "ready",
                    detector |-> detector, image_id |-> image_id,
                    template_id |-> template_id, roi |-> roi,
                    record_history |-> record_history,
                    expected_color |-> expected_color,
                    import_resolves |-> import_resolves,
                    prechecked |-> FALSE, hist_before |-> hb.total_inspections,
                    out |-> None ]
    /\ nreq' = nreq + 1
    /\ UNCHANGED << hvars, svars, rvars, xvars >>

\* the router's dependency runs validate_vision_request and answers 404 or
\* 400 itself, or hands the request to the service
ValidateVisionRequest ==
    /\ req.pc = "received"
    /\ LET v == validate_vision_request(images, sclock, req.image_id, req.roi)
       IN /\ images' = v.images
          /\ sclock' = v.clock
          /\ req' = IF v.raised = "none"
                    THEN [ req EXCEPT !.pc = "ready", !.prechecked = TRUE ]
                    ELSE [ req EXCEPT !.pc = "done", !.prechecked = TRUE,
                             !.out = [ raised |-> v.raised, result |-> None,
                                       raw |-> None, invoked |-> FALSE,
                                       fetched |-> FALSE, image |-> None ] ]
    /\ UNCHANGED << hvars, next_img, last_put, last_evicted, nreq, rvars, xvars >>

\* the state after a service call that ended as r; out.image is the image
\* the Image Store held under the request's id when the call began
Served(r) ==
    /\ images' = r.images
    /\ sclock' = r.clock
    /\ hb' = r.hb
    /\ next_id' = IF r.hb # hb THEN next_id + 1 ELSE next_id
    /\ log' = IF r.hb # hb /\ r.hb.buffer # << >>
              THEN Append(log, r.hb.buffer[Len(r.hb.buffer)]) ELSE log
    /\ req' = [ req EXCEPT !.pc = "done", !.hist_before = hb.total_inspections,
                  !.out = [ raised |-> r.raised, result |-> r.result,
                            raw |-> r.raw, invoked |-> r.invoked,
                            fetched |-> r.fetched,
                            image |-> IF req.image_id \in DOMAIN images
                                      THEN images[req.image_id].shape
                                      ELSE None ] ]
    /\ UNCHANGED << now, blob, src, hb2, next_img, last_put, last_evicted,
                    nreq, rvars, xvars >>

TemplateMatch ==
    /\ req.pc = "ready" /\ req.detector = "template_match"
    /\ \E detector_func \in DetectorOutcomes("template_match") :
         Served(template_match(images, hb, sclock, next_id + 1, now,
                               req.image_id, req.template_id, req.roi,
                               req.record_history, detector_func))

EdgeDetect ==
    /\ req.pc = "ready" /\ req.detector = "edge_detect"
    /\ \E detector_func \in DetectorOutcomes("edge_detect") :
         Served(edge_detect(images, hb, sclock, next_id + 1, now, req.image_id,
                            req.roi, req.record_history, detector_func))

ColorDetect ==
    /\ req.pc = "ready" /\ req.detector = "color_detect"
    /\ \E detector_func \in ColorOutcomes(req.expected_color, MIN_PERCENTAGE) :
         Served(color_detect(images, hb, sclock, next_id + 1, now, req.image_id,
                             req.roi, req.expected_color, req.record_history,
                             detector_func))

ArucoDetect ==
    /\ req.pc = "ready" /\ req.detector = "aruco_detect"
    /\ \E detector_func \in DetectorOutcomes("aruco_detect") :
         Served(aruco_detect(images, hb, sclock, next_id + 1, now, req.image_id,
                             req.roi, req.record_history, detector_func))

RotationDetect ==
    /\ req.pc = "ready" /\ req.detector = "rotation_detect"
    /\ \E detector_func \in DetectorOutcomes("rotation_detect") :
         Served(rotation_detect(images, hb, sclock, next_id + 1, now,
                                req.image_id, req.roi, req.record_history,
                                req.import_resolves, detector_func))

VisionNext ==
    \/ Capture
    \/ NewRequest
    \/ ValidateVisionRequest
    \/ TemplateMatch
    \/ EdgeDetect
    \/ ColorDetect
    \/ ArucoDetect
    \/ RotationDetect

SpecVision == HistoryInit /\ [][VisionNext]_vars

\* C7: whenever the Image Store does not hold the image id at the moment
\* _execute_detection fetches it (also when the facade's pre-check had found
\* it before), the call fails with ImageNotFound and no detector is invoked
C7_AbsentAtFetchIsImageNotFound ==
    (req.pc = "done" /\ req.out.fetched /\ req.out.image = None) =>
        /\ kind_of(req.out.raised) = "ImageNotFound"
        /\ ~req.out.invoked

\* the image was evicted between a successful pre-check and the fetch
C7_Witness ==
    /\ req.pc = "done"
    /\ req.prechecked
    /\ req.out.fetched
    /\ req.out.image = None
    /\ req.image_id # 0
    /\ req.out.raised = "ImageNotFoundException"

\* the rectangle of roi clipped to a width x height image is empty
ClipsToEmpty(roi, width, height) ==
    \/ Min(roi.x + roi.width, width) - Min(roi.x, width) <= 0
    \/ Min(roi.y + roi.height, height) - Min(roi.y, height) <= 0

\* C8: when the request's ROI is empty after clipping to the fetched image,
\* the call fails with InvalidROI and the detector is not invoked
C8_EmptyClipIsInvalidROI ==
    ( /\ req.pc = "done"
      /\ req.out.fetched
      /\ req.out.image # None
      /\ req.roi # None
      /\ ClipsToEmpty(req.roi, req.out.image.width, req.out.image.height) )
    => /\ kind_of(req.out.raised) = "InvalidROI"
       /\ ~req.out.invoked

\* an empty clip ends in pydantic's ValidationError
C8_ValidationErrorReached ==
    ~ ( /\ req.pc = "done"
        /\ req.roi # None
        /\ req.out.raised = "ValidationError" )

\* C10: a detector entry point that returns has appended exactly one History
\* Ring record if record_history is true and none if it is false
C10_OneRecordIffRecordHistory ==
    (req.pc = "done" /\ req.out.raised = "none") =>
        /\ hb.total_inspections - req.hist_before
             = IF req.record_history THEN 1 ELSE 0
        /\ Len(hb.buffer) - Min(req.hist_before, MaxSize)
             = IF req.record_history /\ req.hist_before < MaxSize THEN 1 ELSE 0
        /\ req.record_history =>
             hb.buffer[Len(hb.buffer)].image_id = req.image_id

\* an edge detection with record_history returned and left its record
C10_Witness ==
    /\ req.pc = "done"
    /\ req.detector = "edge_detect"
    /\ req.out.raised = "none"
    /\ req.record_history
    /\ req.out.result.objects # << >>
    /\ hb.total_inspections = req.hist_before + 1

\* ------------------------------------------------------------------------
\* Coordinate remap of detector results
\* ------------------------------------------------------------------------

RemapObjects == { match_0, contour_0, contour_1, aruco_7 }

\* the result dictionaries of up to MaxObjects objects
RemapResults ==
    UNION { { [objects |-> objs] : objs \in [1..k -> RemapObjects] } :
            k \in 0..MaxObjects }

SpecRemapInit ==
    /\ StoreInit
    /\ VisionInit
    /\ StreamsInit
    /\ ThreadsInit
    /\ CalcIdle
    /\ hb = HistoryBuffer(MaxSize)
    /\ now = 0
    /\ next_id = 0
    /\ log = << >>
    /\ blob = None
    /\ src = None
    /\ hb2 = None
    /\ remap \in { [ raw |-> raw, roi_offset |-> << ox, oy >>,
                     result |-> None, by |-> "none" ] :
                   raw \in RemapResults, ox \in 0..MaxOffset,
                   oy \in 0..MaxOffset }

\* _execute_detection remaps the detector's result
RemapInOrchestrator ==
    /\ remap.result = None
    /\ remap' = [ remap EXCEPT
                    !.result = IF remap.roi_offset # << 0, 0 >>
                               THEN adjust_coordinates_for_roi(remap.raw,
                                                               remap.roi_offset)
                               ELSE remap.raw,
                    !.by = "service" ]
    /\ UNCHANGED << hvars, svars, vvars, xvars >>

\* a caller remaps the objects with CoordinateAdjuster
RemapByAdjuster ==
    /\ remap.result = None
    /\ remap' = [ remap EXCEPT
                    !.result = [ objects |->
                                   adjust_for_roi_offset(remap.raw.objects,
                                                         remap.roi_offset) ],
                    !.by = "adjuster" ]
    /\ UNCHANGED << hvars, svars, vvars, xvars >>

RemapNext ==
    \/ RemapInOrchestrator
    \/ RemapByAdjuster

SpecRemap == SpecRemapInit /\ [][RemapNext]_vars

\* object b is object a moved by off, with every other field as in a
MovedBy(a, b, off) ==
    /\ b.bounding_box.x = a.bounding_box.x + off[1]
    /\ b.bounding_box.y = a.bounding_box.y + off[2]
    /\ b.center.x = a.center.x + off[1]
    /\ b.center.y = a.center.y + off[2]
    /\ (a.contour = None) <=> (b.contour = None)
    /\ a.contour # None =>
         /\ Len(b.contour.items) = Len(a.contour.items)
         /\ \A i \in 1..Len(a.contour.items) :
              b.contour.items[i] = << a.contour.items[i][1] + off[1],
                                      a.contour.items[i][2] + off[2] >>
    /\ b.bounding_box.width = a.bounding_box.width
    /\ b.bounding_box.height = a.bounding_box.height
    /\ \A f \in {"object_id", "object_type", "confidence", "area", "perimeter",
                 "rotation", "properties"} : b[f] = a[f]

\* C9: the remap moves every object's bounding box origin, center and contour
\* points by the ROI offset and changes nothing else; with offset (0,0) the
\* result is the detector's result unchanged
C9_RemapAddsOffsetOnly ==
    (remap # None /\ remap.result # None) =>
        /\ Len(remap.result.objects) = Len(remap.raw.objects)
        /\ \A i \in 1..Len(remap.raw.objects) :
             MovedBy(remap.raw.objects[i], remap.result.objects[i],
                     remap.roi_offset)
        /\ remap.roi_offset = << 0, 0 >> => remap.result = remap.raw

\* the orchestrator moved two objects, one with contour points, by (1,2)
C9_Witness ==
    /\ remap # None
    /\ remap.result # None
    /\ remap.by = "service"
    /\ remap.roi_offset = << 1, 2 >>
    /\ Len(remap.raw.objects) = 2
    /\ \E i \in 1..2 : truthy(remap.raw.objects[i].contour)
    /\ \E i \in 1..2 : remap.raw.objects[i].contour = None

\* ------------------------------------------------------------------------
\* History records of detection requests
\* ------------------------------------------------------------------------

\* the newest record of the ring
LastRecord == hb.buffer[Len(hb.buffer)]

\* the request ran a detector that returned and asked for a history record
RecordedDetection ==
    /\ req.pc = "done"
    /\ req.out.raised = "none"
    /\ req.record_history

\* C11: a detection request whose detector raised has appended one record
\* with outcome ERROR and no detections
C11_DetectorRaiseRecordsError ==
    ( /\ req.pc = "done"
      /\ req.out.invoked
      /\ req.out.raised = "DetectorError"
      /\ req.record_history )
    => /\ hb.total_inspections = req.hist_before + 1
       /\ LastRecord.result = "ERROR"
       /\ LastRecord.detections = << >>

C13_MismatchReturnsNoObject ==
    ( /\ req.pc = "done"
      /\ req.detector = "color_detect"
      /\ req.out.raised = "none"
      /\ req.expected_color # None
      /\ LET found == req.out.raw.objects[1].properties
         IN \/ found.dominant_color # req.expected_color.str
            \/ found.percentage < MIN_PERCENTAGE )
    => /\ req.out.result.objects = << >>
       /\ req.record_history => LastRecord.result = "FAIL"

\* ------------------------------------------------------------------------
\* MJPEG streaming: api/routers/camera.py
\* ------------------------------------------------------------------------

CameraIds == {"cam0", "cam1"}

\* dict.get(key, default)
dict_get(d, key, default) == IF key \in DOMAIN d THEN d[key] ELSE default

\* del d[key]
dict_del(d, key) == [k \in DOMAIN d \ {key} |-> d[k]]

\* stream_mjpeg up to "active_streams[camera_id] = True": the map is emptied
\* only if it holds streams and none of them is for camera_id
stream_mjpeg(streams, camera_id) ==
    LET kept == IF DOMAIN streams # {} /\ camera_id \notin DOMAIN streams
                THEN [k \in {} |-> FALSE]
                ELSE streams
    IN [k \in DOMAIN kept \cup {camera_id} |->
          IF k = camera_id THEN TRUE ELSE kept[k]]

\* stop_stream
stop_stream(streams, camera_id) ==
    IF camera_id \in DOMAIN streams
    THEN [streams EXCEPT ![camera_id] = FALSE]
    ELSE streams

\* the "finally" of generate()
generate_finally(streams, camera_id) ==
    IF camera_id \in DOMAIN streams THEN dict_del(streams, camera_id)
    ELSE streams

\* GET /stream/{camera_id}: the handler runs without an await, then its
\* generator waits to be iterated. Every generator still alive is now an
\* earlier stream that has not checked the map since this start
StreamMjpeg ==
    /\ Len(gens) < MaxStreams
    /\ \E camera_id \in CameraIds :
         /\ active_streams' = stream_mjpeg(active_streams, camera_id)
         /\ gens' = Append(
              [i \in DOMAIN gens |->
                 IF gens[i].pc = "ended" THEN gens[i]
                 ELSE [gens[i] EXCEPT !.earlier = TRUE, !.checked = FALSE]],
              [ camera_id |-> camera_id, pc |-> "suspended",
                earlier |-> FALSE, checked |-> FALSE, frames_after |-> 0 ])
    /\ UNCHANGED << bvars, tvars, calc >>

\* generate(): "while active_streams.get(camera_id, False)", the frame check
GenerateCheck ==
    \E i \in DOMAIN gens :
      /\ gens[i].pc = "suspended"
      /\ IF dict_get(active_streams, gens[i].camera_id, FALSE)
         THEN /\ gens' = [gens EXCEPT ![i].pc = "running", ![i].checked = TRUE]
              /\ UNCHANGED active_streams
         ELSE /\ gens' = [gens EXCEPT ![i].pc = "ended", ![i].checked = TRUE]
              /\ active_streams' = generate_finally(active_streams,
                                                    gens[i].camera_id)
      /\ UNCHANGED << bvars, tvars, calc >>

\* generate(): the loop body up to and including "yield"; frames_after tells
\* whether a frame was produced after the check that followed a later start
GenerateYield ==
    \E i \in DOMAIN gens :
      /\ gens[i].pc = "running"
      /\ gens' = [gens EXCEPT ![i].pc = "suspended",
                     ![i].frames_after =
                        IF gens[i].earlier /\ gens[i].checked THEN 1 ELSE @]
      /\ UNCHANGED << active_streams, bvars, tvars, calc >>

\* the client goes away while generate() waits in its loop body: the
\* cancellation runs "finally"
ClientDisconnect ==
    \E i \in DOMAIN gens :
      /\ gens[i].pc = "running"
      /\ gens' = [gens EXCEPT ![i].pc = "ended"]
      /\ active_streams' = generate_finally(active_streams, gens[i].camera_id)
      /\ UNCHANGED << bvars, tvars, calc >>

\* POST /stream/stop/{camera_id}
StopStream ==
    /\ \E camera_id \in CameraIds :
         active_streams' = stop_stream(active_streams, camera_id)
    /\ UNCHANGED << gens, bvars, tvars, calc >>

StreamsNext ==
    \/ StreamMjpeg
    \/ GenerateCheck
    \/ GenerateYield
    \/ ClientDisconnect
    \/ StopStream

SpecStreams == HistoryInit /\ [][StreamsNext]_vars

\* the generators that passed a frame check made after the latest stream
\* start and go on producing frames
StillProducing ==
    { i \in DOMAIN gens : gens[i].pc = "running" /\ gens[i].checked }

\* C14: at most one stream generator is still producing frames past its
\* next frame check, whatever starts, stops and frame iterations came before
C14_AtMostOneActiveStream == Cardinality(StillProducing) <= 1

\* C15: a stream that was active when a new stream started ends at its next
\* frame check: it produces no frame after that check
C15_EarlierStreamsEndAtNextCheck ==
    \A i \in DOMAIN gens :
        (gens[i].earlier /\ gens[i].checked) =>
            /\ gens[i].pc = "ended"
            /\ gens[i].frames_after = 0

\* ------------------------------------------------------------------------
\* History Ring queries and clear
\* ------------------------------------------------------------------------

\* the result filters a caller of get_recent passes
ResultFilters == { None, [str |-> "PASS"], [str |-> "FAIL"], [str |-> "ERROR"] }

\* the position in the ring of the record rec
PositionOf(rec) == CHOOSE i \in 1..Len(hb.buffer) : hb.buffer[i] = rec

\* C16: get_recent(limit, result_filter) returns at most limit records, all
\* of them in the ring and matching the filter, newest first: of two returned
\* records the one appended later comes first
C16_RecentNewestFirst ==
    \A limit \in 0..(MaxSize + 1), result_filter \in ResultFilters :
        LET out == get_recent(hb, limit, result_filter)
        IN /\ Len(out) <= limit
           /\ \A i \in 1..Len(out) :
                /\ \E k \in 1..Len(hb.buffer) : hb.buffer[k] = out[i]
                /\ result_filter # None => out[i].result = result_filter.str
           /\ \A i, j \in 1..Len(out) :
                i < j => PositionOf(out[i]) > PositionOf(out[j])

\* C17: a clear() leaves the ring empty with its five lifetime counters at
\* zero, so that its statistics are those of a new ring
C17_ClearResetsAll ==
    [][ Clear =>
          /\ hb'.buffer = << >>
          /\ hb'.total_inspections = 0
          /\ hb'.pass_count = 0
          /\ hb'.fail_count = 0
          /\ hb'.error_count = 0
          /\ hb'.total_processing_time = 0
          /\ hb' = HistoryBuffer(MaxSize)
          /\ get_statistics(hb', now') = get_statistics(HistoryBuffer(MaxSize), now')
      ]_vars

\* the ring is as new although more records were added than it can hold
C17_Witness ==
    /\ next_id > MaxSize
    /\ hb = HistoryBuffer(MaxSize)
    /\ log = << >>

\* ---------------------------------------------------------------------
\* Threads on the History Ring: core/history_buffer.py, self.lock = RLock()
\* ---------------------------------------------------------------------

\* the record the concurrent test adds: a PASS with no detections
ThreadInput ==
    [result |-> "PASS", detections |-> << >>, processing_time_ms |-> 1,
     thumbnail_base64 |-> None]

may_acquire_unlocked(l, t) == TRUE

\* RLock.acquire does not block when the lock is free or the caller owns it
may_acquire(l, t) == l.owner = 0 \/ l.owner = t

\* RLock.acquire: `with self.lock:` entry, one level deeper for the owner
acquire(l, t) == [owner |-> t, depth |-> l.depth + 1]

\* RLock.release: `with self.lock:` exit, free when the depth returns to 0
release(l, t) ==
    IF l.depth <= 1 THEN [owner |-> 0, depth |-> 0]
    ELSE [l EXCEPT !.depth = @ - 1]

\* thread t calls add_inspection and enters `with self.lock:`
AddAcquire(t) ==
    /\ thr[t].pc = "idle"
    /\ thr[t].left > 0
    /\ may_acquire(lock, t)
    /\ lock' = acquire(lock, t)
    /\ thr' = [thr EXCEPT ![t].pc = "append"]
    /\ UNCHANGED << bvars, mvars, calc >>

\* self.buffer.append(record), with the record built from a fresh uuid
AddAppend(t) ==
    /\ thr[t].pc = "append"
    /\ LET record == [ id |-> next_id + 1, timestamp |-> now,
                       image_id |-> "img1", result |-> ThreadInput.result,
                       summary |-> summary_of(ThreadInput.detections),
                       thumbnail_base64 |-> ThreadInput.thumbnail_base64,
                       processing_time_ms |-> ThreadInput.processing_time_ms,
                       detections |-> ThreadInput.detections,
                       metadata |-> << >> ]
       IN /\ hb' = [hb EXCEPT !.buffer = deque_append(@, hb.max_size, record)]
          /\ log' = Append(log, record)
    /\ next_id' = next_id + 1
    /\ thr' = [thr EXCEPT ![t].pc = "load"]
    /\ UNCHANGED << now, blob, src, hb2, svars, vvars, rvars, mvars, lock, calc >>

\* self.total_inspections += 1, first half: the thread reads the counter
AddLoad(t) ==
    /\ thr[t].pc = "load"
    /\ thr' = [thr EXCEPT ![t].pc = "store", ![t].loaded = hb.total_inspections]
    /\ UNCHANGED << bvars, mvars, lock, calc >>

\* self.total_inspections += 1, second half: the thread writes the counter
\* back, then adds the processing time and counts the result
AddStore(t) ==
    /\ thr[t].pc = "store"
    /\ hb' = [hb EXCEPT
                !.total_inspections = thr[t].loaded + 1,
                !.total_processing_time = @ + ThreadInput.processing_time_ms,
                !.pass_count = IF ThreadInput.result = "PASS" THEN @ + 1 ELSE @,
                !.fail_count = IF ThreadInput.result = "FAIL" THEN @ + 1 ELSE @,
                !.error_count = IF ThreadInput.result \notin {"PASS", "FAIL"}
                                THEN @ + 1 ELSE @ ]
    /\ thr' = [thr EXCEPT ![t].pc = "release"]
    /\ UNCHANGED << now, next_id, log, blob, src, hb2, svars, vvars, rvars,
                    mvars, lock, calc >>

\* add_inspection leaves `with self.lock:` and returns the record id
AddRelease(t) ==
    /\ thr[t].pc = "release"
    /\ lock' = release(lock, t)
    /\ thr' = [thr EXCEPT ![t].pc = "idle", ![t].left = @ - 1]
    /\ UNCHANGED << bvars, mvars, calc >>

\* thread t calls export_to_dict and enters its `with self.lock:`
ExportAcquire(t) ==
    /\ thr[t].pc = "idle"
    /\ ~thr[t].exported
    /\ may_acquire(lock, t)
    /\ lock' = acquire(lock, t)
    /\ thr' = [thr EXCEPT ![t].pc = "export"]
    /\ UNCHANGED << bvars, mvars, calc >>

\* export_to_dict calls self.get_statistics(), which enters `with self.lock:`
\* again on the thread that already owns it
ExportStatistics(t) ==
    /\ thr[t].pc = "export"
    /\ may_acquire(lock, t)
    /\ lock' = acquire(lock, t)
    /\ thr' = [thr EXCEPT ![t].pc = "statistics"]
    /\ UNCHANGED << bvars, mvars, calc >>

\* get_statistics returns and releases its level; the export is built
ExportBuild(t) ==
    /\ thr[t].pc = "statistics"
    /\ blob' = export_to_dict(hb, now)
    /\ src' = hb
    /\ lock' = release(lock, t)
    /\ thr' = [thr EXCEPT ![t].pc = "exported"]
    /\ UNCHANGED << hb, now, next_id, log, hb2, svars, vvars, rvars, mvars, calc >>

\* export_to_dict leaves `with self.lock:`
ExportRelease(t) ==
    /\ thr[t].pc = "exported"
    /\ lock' = release(lock, t)
    /\ thr' = [thr EXCEPT ![t].pc = "idle", ![t].exported = TRUE]
    /\ UNCHANGED << bvars, mvars, calc >>

ThreadsNext ==
    \E t \in 1..NumThreads :
        \/ AddAcquire(t)
        \/ AddAppend(t)
        \/ AddLoad(t)
        \/ AddStore(t)
        \/ AddRelease(t)
        \/ ExportAcquire(t)
        \/ ExportStatistics(t)
        \/ ExportBuild(t)
        \/ ExportRelease(t)

SpecThreads == HistoryInit /\ [][ThreadsNext]_vars

\* every thread has made all its adds and is outside the ring
AllAddsDone ==
    \A t \in 1..NumThreads : thr[t].pc = "idle" /\ thr[t].left = 0

\* C18: the ring's operations exclude one another under the reentrant lock,
\* so once K threads have each made M adds the lifetime total is K * M
C18_ConcurrentAddsAllCounted ==
    /\ Cardinality({t \in 1..NumThreads : thr[t].pc # "idle"}) <= 1
    /\ lock.owner # 0 => thr[lock.owner].pc # "idle"
    /\ AllAddsDone =>
         /\ hb.total_inspections = NumThreads * AddsPerThread
         /\ hb.pass_count = NumThreads * AddsPerThread

\* all K * M adds are done, and an export ran with the lock held twice
C18_Witness ==
    /\ AllAddsDone
    /\ hb.total_inspections = NumThreads * AddsPerThread
    /\ \E t \in 1..NumThreads : thr[t].exported

\* ---------------------------------------------------------------------
\* Template matching: vision/template_matching.py, TemplateDetector.detect
\* (the same code is inlined in VisionService.template_match.detect_func)
\* ---------------------------------------------------------------------

\* the matching methods the code names
TemplateMethods ==
    {"TM_SQDIFF", "TM_SQDIFF_NORMED", "TM_CCORR_NORMED", "TM_CCOEFF_NORMED"}

\* thresholds in tenths: 0.0, the default 0.8, and 1.0
ThresholdTenths == {0, 8, 10}

\* one-row grey images of width 1..n
Rows(n) == UNION { [1..w -> 0..MaxPixel] : w \in 1..n }

RECURSIVE Dot(_, _)
\* sum of the products of two equally long rows
Dot(a, b) == IF a = << >> THEN 0 ELSE Head(a) * Head(b) + Dot(Tail(a), Tail(b))

RECURSIVE Sum(_)
Sum(a) == IF a = << >> THEN 0 ELSE Head(a) + Sum(Tail(a))

\* a response value num / sqrt(den2), exact
Value(num, den2) == [num |-> num, den2 |-> den2]

\* v < w for two response values
Less(v, w) == v.num * Abs(v.num) * w.den2 < w.num * Abs(w.num) * v.den2

\* the normalised methods of cv2.matchTemplate: num / t with t = sqrt(den2),
\* +-1 while |num| is within 1.125 t, and a fixed value beyond that (which
\* includes t = 0)
normed(num, den2, beyond) ==
    IF num * num < den2 THEN Value(num, den2)
    ELSE IF 64 * num * num < 81 * den2 THEN Value(IF num > 0 THEN 1 ELSE -1, 1)
    ELSE Value(beyond, 1)

\* cv2.matchTemplate at one position: window and template are equally long
response(window, template, method) ==
    LET n   == Len(template)
        sTI == Dot(template, window)
        sTT == Dot(template, template)
        sII == Dot(window, window)
        sT  == Sum(template)
        sI  == Sum(window)
    IN CASE method = "TM_SQDIFF" -> Value(sTT + sII - 2 * sTI, 1)
         [] method = "TM_SQDIFF_NORMED" ->
              normed(sTT + sII - 2 * sTI, sTT * sII, 1)
         [] method = "TM_CCORR_NORMED" -> normed(sTI, sTT * sII, 0)
         [] method = "TM_CCOEFF_NORMED" ->
              normed(n * sTI - sT * sI,
                     (n * sTT - sT * sT) * (n * sII - sI * sI), 0)

\* cv2.matchTemplate: the response at every position the template fits
matchTemplate(image, template, method) ==
    [k \in 1..(Len(image) - Len(template) + 1) |->
        response(SubSeq(image, k, k + Len(template) - 1), template, method)]

\* cv2.minMaxLoc: the first position of the least and of the greatest value
minMaxLoc(result) ==
    LET min_loc == CHOOSE k \in DOMAIN result :
                     /\ \A j \in DOMAIN result : ~Less(result[j], result[k])
                     /\ \A j \in 1..(k - 1) : Less(result[k], result[j])
        max_loc == CHOOSE k \in DOMAIN result :
                     /\ \A j \in DOMAIN result : ~Less(result[k], result[j])
                     /\ \A j \in 1..(k - 1) : Less(result[j], result[k])
    IN [min_val |-> result[min_loc], max_val |-> result[max_loc],
        min_loc |-> min_loc - 1, max_loc |-> max_loc - 1]

\* max_val >= threshold, the threshold in tenths
meets_threshold(max_val, threshold) ==
    /\ max_val.num >= 0
    /\ 100 * max_val.num * max_val.num >= threshold * threshold * max_val.den2

\* min_val <= (1 - threshold), the threshold in tenths; min_val is never
\* negative
within_threshold(min_val, threshold) ==
    100 * min_val.num * min_val.num
        <= (10 - threshold) * (10 - threshold) * min_val.den2

\* TemplateDetector.detect: the list of detected objects, or the cv2.error
\* of a template that does not fit the image
TemplateDetector_detect(image, template, method, threshold) ==
    IF Len(template) > Len(image) THEN Raise("cv2.error")
    ELSE
      LET mm == minMaxLoc(matchTemplate(image, template, method))
          sqdiff == method \in {"TM_SQDIFF", "TM_SQDIFF_NORMED"}
          accepted == IF sqdiff THEN within_threshold(mm.min_val, threshold)
                      ELSE meets_threshold(mm.max_val, threshold)
          x == IF sqdiff THEN mm.min_loc ELSE mm.max_loc
          w == Len(template)
      IN List(IF accepted
              THEN << [ object_id |-> "match_0",
                        object_type |-> "template_match",
                        bounding_box |-> ROI(x, 0, w, 1),
                        center |-> Point(x + w \div 2, 0 + 1 \div 2),
                        rotation |-> 0,
                        raw_score |-> IF sqdiff THEN mm.min_val ELSE mm.max_val ] >>
              ELSE << >>)

\* a caller holds an image, a template and matching parameters
TemplateInput ==
    /\ calc = None
    /\ \E image \in Rows(MaxRow), template \in Rows(MaxTemplateRow),
          method \in TemplateMethods, threshold \in ThresholdTenths :
         calc' = [ op |-> "template_match", image |-> image,
                   template |-> template, method |-> method,
                   threshold |-> threshold, out |-> None ]
    /\ UNCHANGED << bvars, mvars, tvars >>

\* the caller runs TemplateDetector.detect on them
TemplateDetect ==
    /\ calc # None
    /\ calc.op = "template_match"
    /\ calc.out = None
    /\ calc' = [calc EXCEPT !.out = TemplateDetector_detect(
                    calc.image, calc.template, calc.method, calc.threshold)]
    /\ UNCHANGED << bvars, mvars, tvars >>

TemplateNext == TemplateInput \/ TemplateDetect

SpecTemplate == HistoryInit /\ [][TemplateNext]_vars

\* C19: with threshold 0.0 every method, on every non-empty image and
\* template, emits exactly one object
C19_ZeroThresholdAlwaysMatches ==
    ( /\ calc # None
      /\ calc.op = "template_match"
      /\ calc.out # None
      /\ calc.threshold = 0 )
    => /\ "items" \in DOMAIN calc.out
       /\ Len(calc.out.items) = 1

\* ---------------------------------------------------------------------
\* Rotation angle ranges: vision/rotation_detection.py
\* ---------------------------------------------------------------------

\* AngleRange
AngleRanges == {"0_360", "-180_180", "0_180"}

\* input angles, in whole degrees
Angles == (0 - 360 * MaxTurns)..(360 * MaxTurns)

\* a float, as a value that can stand where None can
Float(x) == [float |-> x]

RECURSIVE while_below(_, _, _)
\* while angle < bound: angle += step
while_below(angle, bound, step) ==
    IF angle < bound THEN while_below(angle + step, bound, step) ELSE angle

RECURSIVE while_at_least(_, _, _)
\* while angle >= bound: angle -= step
while_at_least(angle, bound, step) ==
    IF angle >= bound THEN while_at_least(angle - step, bound, step) ELSE angle

RECURSIVE while_above(_, _, _)
\* while angle > bound: angle -= step
while_above(angle, bound, step) ==
    IF angle > bound THEN while_above(angle - step, bound, step) ELSE angle

\* RotationDetector._convert_angle_range
convert_angle_range(angle, range_type) ==
    CASE range_type = "0_360" ->
           while_at_least(while_below(angle, 0, 360), 360, 360)
      [] range_type = "-180_180" ->
           while_above(while_below(angle, 0 - 180, 360), 180, 360)
      [] range_type = "0_180" ->
           while_at_least(while_below(angle, 0, 180), 180, 180)
      [] OTHER -> angle

\* a caller holds an angle and the range it wants it in
AngleInput ==
    /\ calc = None
    /\ \E angle \in Angles, range_type \in AngleRanges :
         calc' = [ op |-> "convert_angle_range", angle |-> angle,
                   range_type |-> range_type, out |-> None ]
    /\ UNCHANGED << bvars, mvars, tvars >>

\* the caller runs _convert_angle_range
ConvertAngleRange ==
    /\ calc # None
    /\ calc.op = "convert_angle_range"
    /\ calc.out = None
    /\ calc' = [calc EXCEPT
                  !.out = Float(convert_angle_range(calc.angle, calc.range_type))]
    /\ UNCHANGED << bvars, mvars, tvars >>

AngleNext == AngleInput \/ ConvertAngleRange

SpecAngle == HistoryInit /\ [][AngleNext]_vars

RotationMethods == {"min_area_rect", "ellipse_fit", "pca"}

\* a contour of n points [[x1,y1], [x2,y2], ...]
Contours == { [i \in 1..n |-> << i, i * i >>] : n \in 0..MaxContourPoints }

\* RotationDetectRequest(contour=...): Field(min_length=5) and
\* validate_contour both reject fewer than 5 points, whatever the method
RotationDetectRequest(contour, method, angle_range) ==
    IF Len(contour) < 5 THEN Raise("ValidationError")
    ELSE [contour |-> contour, method |-> method, angle_range |-> angle_range]

\* RotationDetector.detect, up to the choice of the method: the contour is
\* refused with a ValueError or handed to the method
detect_contour_check(contour, method) ==
    IF Len(contour) < 5 /\ method = "ellipse_fit" THEN Raise("ValueError")
    ELSE IF Len(contour) < 3 THEN Raise("ValueError")
    ELSE [accepted |-> method]

\* a rotation analysis: through the request model when the call comes from
\* the API, straight to the detector otherwise
rotation_analysis_of(contour, method, angle_range, via_request) ==
    IF via_request
    THEN LET request == RotationDetectRequest(contour, method, angle_range)
         IN IF IsRaise(request) THEN request
            ELSE detect_contour_check(request.contour, request.method)
    ELSE detect_contour_check(contour, method)

\* a caller holds a contour, a method and a range
RotationInput ==
    /\ calc = None
    /\ \E contour \in Contours, method \in RotationMethods,
          angle_range \in AngleRanges, via_request \in BOOLEAN :
         calc' = [ op |-> "rotation", contour |-> contour, method |-> method,
                   angle_range |-> angle_range, via_request |-> via_request,
                   out |-> None ]
    /\ UNCHANGED << bvars, mvars, tvars >>

\* the analysis runs up to its contour checks
RotationCheck ==
    /\ calc # None
    /\ calc.op = "rotation"
    /\ calc.out = None
    /\ calc' = [calc EXCEPT !.out = rotation_analysis_of(
                    calc.contour, calc.method, calc.angle_range, calc.via_request)]
    /\ UNCHANGED << bvars, mvars, tvars >>

RotationNext == RotationInput \/ RotationCheck

SpecRotation == HistoryInit /\ [][RotationNext]_vars

\* the fewest points the method works on
MinimumPoints(method) == IF method = "ellipse_fit" THEN 5 ELSE 3

\* C21: a contour is accepted exactly when it has its method's minimum of
\* points (3 for min_area_rect and pca, 5 for ellipse_fit), and is refused
\* with a parameter error otherwise
C21_ContourMinimumPerMethod ==
    ( /\ calc # None
      /\ calc.op = "rotation"
      /\ calc.out # None )
    => IF Len(calc.contour) >= MinimumPoints(calc.method)
       THEN "accepted" \in DOMAIN calc.out
       ELSE IsRaise(calc.out) /\ calc.out.raised \in {"ValueError", "ValidationError"}

\* ---------------------------------------------------------------------
\* Time series: core/history_buffer.py, HistoryBuffer.get_time_series
\* (times in minutes)
\* ---------------------------------------------------------------------

\* timedelta(hours=1) in minutes
MinutesPerHour == 60

\* datetime.now() at the call, late enough for the longest duration
NowMinutes == MaxDuration * MinutesPerHour + 1

\* the ring at the call: empty, or one record stamped at or before now
SeriesBuffers ==
    { << >> } \cup
    { << [timestamp |-> ts, result |-> res] >> :
         ts \in 0..NowMinutes, res \in {"PASS", "FAIL"} }

\* one round of the loop: the bucket that starts at current_time
series_bucket(buffer, current_time, interval_minutes) ==
    LET bucket_end == current_time + interval_minutes
        bucket_records == { i \in DOMAIN buffer :
                              /\ current_time <= buffer[i].timestamp
                              /\ buffer[i].timestamp < bucket_end }
    IN [ timestamp |-> current_time,
         total  |-> Cardinality(bucket_records),
         passed |-> Cardinality({ i \in bucket_records : buffer[i].result = "PASS" }),
         failed |-> Cardinality({ i \in bucket_records : buffer[i].result = "FAIL" }) ]

\* HistoryBuffer.get_time_series: round k of `while current_time < now`
\* starts at cutoff + (k - 1) * interval_minutes and runs while that is
\* before now
get_time_series(buffer, now_time, interval_minutes, duration_hours) ==
    LET cutoff == now_time - duration_hours * MinutesPerHour
        start(k) == cutoff + (k - 1) * interval_minutes
        rounds == { k \in 1..(now_time - cutoff) : start(k) < now_time }
    IN [ k \in 1..Cardinality(rounds) |->
           series_bucket(buffer, start(k), interval_minutes) ]

\* a caller asks for a time series
SeriesInput ==
    /\ calc = None
    /\ \E buffer \in SeriesBuffers, interval_minutes \in 1..MaxInterval,
          duration_hours \in 1..MaxDuration :
         calc' = [ op |-> "time_series", buffer |-> buffer,
                   interval_minutes |-> interval_minutes,
                   duration_hours |-> duration_hours, out |-> None ]
    /\ UNCHANGED << bvars, mvars, tvars >>

\* get_time_series runs
GetTimeSeries ==
    /\ calc # None
    /\ calc.op = "time_series"
    /\ calc.out = None
    /\ calc' = [calc EXCEPT !.out = List(get_time_series(
                    calc.buffer, NowMinutes, calc.interval_minutes,
                    calc.duration_hours))]
    /\ UNCHANGED << bvars, mvars, tvars >>

SeriesNext == SeriesInput \/ GetTimeSeries

SpecSeries == HistoryInit /\ [][SeriesNext]_vars

\* C22: the series has floor(duration_hours * 60 / interval_minutes) buckets
\* and every bucket lies in [now - duration_hours, now)
C22_BucketCountAndSpan ==
    ( /\ calc # None
      /\ calc.op = "time_series"
      /\ calc.out # None )
    => LET buckets == calc.out.items
           cutoff == NowMinutes - calc.duration_hours * MinutesPerHour
       IN /\ Len(buckets) =
               (calc.duration_hours * MinutesPerHour) \div calc.interval_minutes
          /\ \A i \in 1..Len(buckets) :
               /\ cutoff <= buckets[i].timestamp
               /\ buckets[i].timestamp + calc.interval_minutes <= NowMinutes

\* ---------------------------------------------------------------------
\* Clipping: core/roi_handler.py ROI (a dataclass, no field constraints) and
\* api/models.py ROI (pydantic, modelled above by ROI, from_points, clip)
\* ---------------------------------------------------------------------

\* roi_handler.ROI(x, y, width, height): any four integers
roi_handler_ROI(x, y, width, height) ==
    [x |-> x, y |-> y, width |-> width, height |-> height]

\* roi_handler.ROI.from_points
roi_handler_from_points(x1, y1, x2, y2) ==
    roi_handler_ROI(Min(x1, x2), Min(y1, y2), Abs(x2 - x1), Abs(y2 - y1))

\* roi_handler.ROI.clip
roi_handler_clip(roi, image_width, image_height) ==
    LET x  == Max(0, Min(roi.x, image_width))
        y  == Max(0, Min(roi.y, image_height))
        x2 == Max(0, Min(roi.x + roi.width, image_width))
        y2 == Max(0, Min(roi.y + roi.height, image_height))
    IN roi_handler_from_points(x, y, x2, y2)

\* the two ROI classes
RoiClasses == {"core.roi_handler", "api.models"}

\* the rectangles a caller can hold: any integers for the dataclass, what
\* the field constraints admit for the pydantic model
Rectangles(class) ==
    { r \in [x : (0 - 1)..MaxCoord, y : (0 - 1)..MaxCoord,
             width : (0 - 1)..MaxCoord, height : (0 - 1)..MaxCoord] :
        class = "api.models" => ~IsRaise(ROI(r.x, r.y, r.width, r.height)) }

\* r.clip(image_width, image_height) of either class
clip_of(class, roi, image_width, image_height) ==
    IF class = "api.models" THEN clip(roi, image_width, image_height)
    ELSE roi_handler_clip(roi, image_width, image_height)

\* a caller holds a rectangle and an image size
ClipInput ==
    /\ calc = None
    /\ \E class \in RoiClasses :
       \E roi \in Rectangles(class), image_width \in 1..MaxCoord,
          image_height \in 1..MaxCoord :
         calc' = [ op |-> "clip", class |-> class, roi |-> roi,
                   image_width |-> image_width, image_height |-> image_height,
                   out |-> None, again |-> None ]
    /\ UNCHANGED << bvars, mvars, tvars >>

\* the caller evaluates r.clip(W, H) and r.clip(W, H).clip(W, H); an
\* exception of the first clip ends the second expression as well
ClipTwice ==
    /\ calc # None
    /\ calc.op = "clip"
    /\ calc.out = None
    /\ LET once == clip_of(calc.class, calc.roi, calc.image_width, calc.image_height)
       IN calc' = [calc EXCEPT
                     !.out = once,
                     !.again = IF IsRaise(once) THEN once
                               ELSE clip_of(calc.class, once, calc.image_width,
                                            calc.image_height)]
    /\ UNCHANGED << bvars, mvars, tvars >>

ClipNext == ClipInput \/ ClipTwice

SpecClip == HistoryInit /\ [][ClipNext]_vars

ClipDone == calc # None /\ calc.op = "clip" /\ calc.out # None

\* C23: for every rectangle and image size r.clip(W,H) is a rectangle and
\* clipping it again returns the same rectangle
C23_ClipIdempotent ==
    ClipDone => /\ ~IsRaise(calc.out)
                /\ ~IsRaise(calc.again)
                /\ calc.again = calc.out

\* C24: models.ROI.clip returns a rectangle inside [0, W] x [0, H], with
\* width or height zero when the receiver lies outside the image
C24_ClipCollapsesInsideImage ==
    (ClipDone /\ calc.class = "api.models")
    => /\ ~IsRaise(calc.out)
       /\ 0 <= calc.out.x /\ calc.out.x + calc.out.width <= calc.image_width
       /\ 0 <= calc.out.y /\ calc.out.y + calc.out.height <= calc.image_height
       /\ (calc.roi.x >= calc.image_width \/ calc.roi.y >= calc.image_height)
            => (calc.out.width = 0 \/ calc.out.height = 0)

\* ---------------------------------------------------------------------
\* Object identifiers of a response: vision/aruco_detection.py,
\* vision/edge_detection.py, vision/template_matching.py,
\* vision/color_detection.py, vision/rotation_detection.py
\* ---------------------------------------------------------------------

\* the f-string f"{prefix}{n}"
fstring(prefix, n) == [prefix |-> prefix, n |-> n]

\* what the detector found in the image: the marker ids detectMarkers
\* returns (one per marker seen, so a marker printed twice is listed twice),
\* the contours that pass the filters, whether the template matched, or the
\* one analysis the colour and rotation detectors always make
Findings(detector) ==
    CASE detector = "aruco_detect" ->
           UNION { [1..n -> 0..MaxMarkerId] : n \in 0..MaxFound }
      [] detector = "edge_detect" ->
           { [i \in 1..n |-> [area |-> n - i]] : n \in 0..MaxFound }
      [] detector = "template_match" -> { << >>, << [raw_score |-> 1] >> }
      [] OTHER -> { << [found |-> TRUE] >> }

\* ArucoDetector._process_marker, the object_id of the marker at `index`
process_marker_id(marker_id, index) == fstring("aruco_", marker_id)

\* the object_id values of the response each detector builds
object_ids(detector, found) ==
    CASE detector = "aruco_detect" ->
           [i \in DOMAIN found |-> process_marker_id(found[i], i - 1)]
      [] detector = "edge_detect" ->
           [i \in DOMAIN found |-> fstring("contour_", i - 1)]
      [] detector = "template_match" ->
           [i \in DOMAIN found |-> Str("match_0")]
      [] detector = "color_detect" ->
           [i \in DOMAIN found |-> Str("color_0")]
      [] detector = "rotation_detect" ->
           [i \in DOMAIN found |-> Str("rotation_analysis")]

\* an image is given to a detector
IdsInput ==
    /\ calc = None
    /\ \E detector \in Detectors :
       \E found \in Findings(detector) :
         calc' = [ op |-> "object_ids", detector |-> detector,
                   found |-> found, out |-> None ]
    /\ UNCHANGED << bvars, mvars, tvars >>

\* the detector builds its response
IdsDetect ==
    /\ calc # None
    /\ calc.op = "object_ids"
    /\ calc.out = None
    /\ calc' = [calc EXCEPT !.out = List(object_ids(calc.detector, calc.found))]
    /\ UNCHANGED << bvars, mvars, tvars >>

IdsNext == IdsInput \/ IdsDetect

SpecIds == HistoryInit /\ [][IdsNext]_vars

\* C25: the object_id values of one response are pairwise distinct
C25_ObjectIdsDistinct ==
    ( /\ calc # None
      /\ calc.op = "object_ids"
      /\ calc.out # None )
    => \A i, j \in DOMAIN calc.out.items :
          i # j => calc.out.items[i] # calc.out.items[j]

\* ---------------------------------------------------------------------
\* Failure analysis: core/history_buffer.py, get_failure_analysis
\* ---------------------------------------------------------------------

\* names of the checks a record's detections carry
CheckNames == << "check_A", "check_B", "check_C", "check_D", "check_E", "check_F" >>

\* one failed detection of the check called name
failed(name) == [name |-> name, found |-> FALSE]

\* the detection lists of the analysed records: the first k checks failed,
\* the last check alone, a check failed twice in one record, a check that
\* was found, a detection without "found", and one without "name"
DetectionLists ==
    { [i \in 1..k |-> failed(CheckNames[i])] : k \in 0..Len(CheckNames) }
    \cup { << failed(CheckNames[Len(CheckNames)]) >>,
           << failed(CheckNames[2]), failed(CheckNames[2]) >>,
           << [name |-> CheckNames[1], found |-> TRUE], failed(CheckNames[3]) >>,
           << [name |-> CheckNames[1]] >>,
           << [found |-> FALSE] >> }

\* the records of the ring, as far as the analysis reads them
AnalysedRecords ==
    [result : {"PASS", "FAIL", "ERROR"}, detections : DetectionLists]

\* rings of up to n such records
AnalysedBuffers(n) == UNION { [1..k -> AnalysedRecords] : k \in 0..n }

failures_of_any_result(buffer) == buffer

\* failures = [r for r in self.buffer if r.result == "FAIL"]
failures_of(buffer) == SelectSeq(buffer, LAMBDA r : r.result = "FAIL")

\* detection.get("found", True)
get_found(detection) ==
    IF "found" \in DOMAIN detection THEN detection.found ELSE TRUE

\* detection.get("name", "Unknown")
get_name(detection) ==
    IF "name" \in DOMAIN detection THEN detection.name ELSE "Unknown"

RECURSIVE flatten(_)
\* the detections of the records, in the order the two loops visit them
flatten(records) ==
    IF records = << >> THEN << >>
    ELSE Head(records).detections \o flatten(Tail(records))

RECURSIVE count_failures(_, _)
\* failure_counts[name] = failure_counts.get(name, 0) + 1 over the visited
\* detections; the dict keeps its keys in the order they were first set
count_failures(detections, failure_counts) ==
    IF detections = << >> THEN failure_counts
    ELSE LET detection == Head(detections)
             name == get_name(detection)
             known == \E i \in DOMAIN failure_counts : failure_counts[i].name = name
             bumped == [i \in DOMAIN failure_counts |->
                          IF failure_counts[i].name = name
                          THEN [failure_counts[i] EXCEPT !.count = @ + 1]
                          ELSE failure_counts[i]]
         IN IF get_found(detection)
            THEN count_failures(Tail(detections), failure_counts)
            ELSE count_failures(Tail(detections),
                   IF known THEN bumped
                   ELSE Append(failure_counts, [name |-> name, count |-> 1]))

RECURSIVE sorted_by_count(_)
\* sorted(items, key=count, reverse=True): stable, so equal counts keep
\* their order
sorted_by_count(items) ==
    IF items = << >> THEN << >>
    ELSE LET top == CHOOSE i \in DOMAIN items :
                      /\ \A j \in DOMAIN items : items[j].count <= items[i].count
                      /\ \A j \in 1..(i - 1) : items[j].count < items[i].count
         IN << items[top] >> \o
            sorted_by_count([j \in 1..(Len(items) - 1) |->
                               IF j < top THEN items[j] ELSE items[j + 1]])

\* HistoryBuffer.get_failure_analysis
get_failure_analysis(buffer) ==
    LET failures == failures_of(buffer)
    IN IF failures = << >>
       THEN [ total_failures |-> 0, common_failures |-> << >>,
              failure_rate |-> Value(0, 1) ]
       ELSE LET failure_counts == count_failures(flatten(failures), << >>)
                ranked == sorted_by_count(failure_counts)
            IN [ total_failures |-> Len(failures),
                 common_failures |-> SubSeq(ranked, 1, Min(5, Len(ranked))),
                 failure_rate |-> Value(Len(failures) * 100, Len(buffer)) ]

\* a caller asks for the failure analysis of a ring
AnalysisInput ==
    /\ calc = None
    /\ \E buffer \in AnalysedBuffers(MaxAnalysed) :
         calc' = [ op |-> "failure_analysis", buffer |-> buffer, out |-> None ]
    /\ UNCHANGED << bvars, mvars, tvars >>

\* get_failure_analysis runs
GetFailureAnalysis ==
    /\ calc # None
    /\ calc.op = "failure_analysis"
    /\ calc.out = None
    /\ calc' = [calc EXCEPT !.out = get_failure_analysis(calc.buffer)]
    /\ UNCHANGED << bvars, mvars, tvars >>

AnalysisNext == AnalysisInput \/ GetFailureAnalysis

SpecAnalysis == HistoryInit /\ [][AnalysisNext]_vars

\* the number of detections called name with found = false in the FAIL
\* records of the buffer
FailedCount(buffer, name) ==
    Cardinality({ p \in (DOMAIN buffer) \X (1..Len(CheckNames)) :
                    /\ buffer[p[1]].result = "FAIL"
                    /\ p[2] \in DOMAIN buffer[p[1]].detections
                    /\ LET d == buffer[p[1]].detections[p[2]]
                       IN /\ "found" \in DOMAIN d /\ d.found = FALSE
                          /\ (IF "name" \in DOMAIN d THEN d.name ELSE "Unknown")
                               = name })

AllNames == { CheckNames[i] : i \in DOMAIN CheckNames } \cup { "Unknown" }

\* C26: the analysis counts, per name, the found=false detections of the
\* FAIL records only, and returns at most 5 names, those with the highest
\* counts, in descending count order
C26_FailureAnalysisTopFive ==
    ( /\ calc # None
      /\ calc.op = "failure_analysis"
      /\ calc.out # None )
    => LET common == calc.out.common_failures
           named == { common[i].name : i \in DOMAIN common }
       IN /\ calc.out.total_failures
               = Cardinality({ k \in DOMAIN calc.buffer :
                                 calc.buffer[k].result = "FAIL" })
          /\ Len(common) <= 5
          /\ \A i \in DOMAIN common :
               /\ common[i].count = FailedCount(calc.buffer, common[i].name)
               /\ common[i].count > 0
          /\ \A i, j \in DOMAIN common :
               i < j => /\ common[i].count >= common[j].count
                        /\ common[i].name # common[j].name
          /\ \A name \in AllNames \ named :
               \/ FailedCount(calc.buffer, name) = 0
               \/ /\ Len(common) = 5
                  /\ \A i \in DOMAIN common :
                       common[i].count >= FailedCount(calc.buffer, name)

\* six names failed in a FAIL record and five come back, while the
\* failed detections of a record that is not a FAIL are left out
C26_Witness ==
    /\ calc # None
    /\ calc.op = "failure_analysis"
    /\ calc.out # None
    /\ \E k \in DOMAIN calc.buffer :
         /\ calc.buffer[k].result # "FAIL"
         /\ \E i \in DOMAIN calc.buffer[k].detections :
              ~get_found(calc.buffer[k].detections[i])
    /\ Len(calc.out.common_failures) = 5
    /\ FailedCount(calc.buffer, CheckNames[Len(CheckNames)]) > 0

\* ---------------------------------------------------------------------
\* Template matching, order of the lookups: services/vision_service.py
\* ---------------------------------------------------------------------

\* the request was answered by VisionService, not by the router's pre-check
AnsweredByService ==
    /\ req.pc = "done"
    /\ req.out.raised \notin {"HTTP404", "HTTP400"}

\* C27: a template_match whose image id the Image Store does not hold fails
\* with ImageNotFound, whether or not the template id exists
C27_AbsentImageDecidesErrorKind ==
    ( /\ AnsweredByService
      /\ req.detector = "template_match"
      /\ req.out.image = None )
    => kind_of(req.out.raised) = "ImageNotFound"

\* ---------------------------------------------------------------------
\* MJPEG streaming, cleanup of an ending generator: api/routers/camera.py
\* ---------------------------------------------------------------------

\* generator i ends in this step, which runs its "finally"
Terminates(i) ==
    /\ i \in DOMAIN gens
    /\ gens[i].pc # "ended"
    /\ gens'[i].pc = "ended"

\* C28: the cleanup of a generator that ends leaves the stream-state entry
\* of every stream started later, and still alive, as it was: neither
\* removed nor changed, also when both streams are for one camera id
C28_CleanupSparesLaterStreams ==
    [][ \A i \in DOMAIN gens :
          Terminates(i) =>
            \A j \in DOMAIN gens :
              ( /\ j > i
                /\ gens[j].pc # "ended"
                /\ gens[j].camera_id \in DOMAIN active_streams )
              => /\ gens[j].camera_id \in DOMAIN active_streams'
                 /\ active_streams'[gens[j].camera_id]
                      = active_streams[gens[j].camera_id]
      ]_vars

\* ---------------------------------------------------------------------
\* Named colours: vision/color_definitions.py
\* ---------------------------------------------------------------------

\* the largest hue, saturation and value of a pixel (OpenCV HSV, 8 bit)
MaxHue == 179
MaxSaturation == 255
MaxValue == 255

\* one entry of COLOR_DEFINITIONS
ColorDefinition(hue_ranges, sat_min, sat_max, val_min, val_max) ==
    [ hue_ranges |-> hue_ranges, sat_min |-> sat_min, sat_max |-> sat_max,
      val_min |-> val_min, val_max |-> val_max ]

\* the keys of COLOR_DEFINITIONS, in table order
ColorNames ==
    << "red", "orange", "yellow", "green", "cyan", "blue", "purple",
       "white", "black", "gray" >>

\* COLOR_DEFINITIONS
COLOR_DEFINITIONS ==
    [ color_name \in { ColorNames[i] : i \in DOMAIN ColorNames } |->
        CASE color_name = "red" ->
               ColorDefinition(List(<< <<0, 15>>, <<165, 180>> >>), 100, 255, 80, 255)
          [] color_name = "orange" ->
               ColorDefinition(List(<< <<16, 30>> >>), 100, 255, 80, 255)
          [] color_name = "yellow" ->
               ColorDefinition(List(<< <<31, 45>> >>), 100, 255, 100, 255)
          [] color_name = "green" ->
               ColorDefinition(List(<< <<46, 90>> >>), 100, 255, 80, 255)
          [] color_name = "cyan" ->
               ColorDefinition(List(<< <<91, 110>> >>), 100, 255, 80, 255)
          [] color_name = "blue" ->
               ColorDefinition(List(<< <<111, 140>> >>), 100, 255, 80, 255)
          [] color_name = "purple" ->
               ColorDefinition(List(<< <<141, 164>> >>), 100, 255, 80, 255)
          [] color_name = "white" -> ColorDefinition(None, 0, 30, 200, 255)
          [] color_name = "black" -> ColorDefinition(None, 0, 50, 0, 50)
          [] color_name = "gray" -> ColorDefinition(None, 0, 30, 51, 199) ]

\* definition["sat_min"] <= s <= definition["sat_max"]
sat_in_range(definition, s) == definition.sat_min <= s /\ s <= definition.sat_max

\* definition["val_min"] <= v <= definition["val_max"]
val_in_range(definition, v) == definition.val_min <= v /\ v <= definition.val_max

\* hue_ranges is None, or some (hue_min, hue_max) has hue_min <= h <= hue_max
hue_in_ranges(definition, h) ==
    \/ definition.hue_ranges = None
    \/ /\ definition.hue_ranges # None
       /\ \E i \in DOMAIN definition.hue_ranges.items :
            /\ definition.hue_ranges.items[i][1] <= h
            /\ h <= definition.hue_ranges.items[i][2]

is_color_match_any_value(h, s, v, color_name) ==
    /\ sat_in_range(COLOR_DEFINITIONS[color_name], s)
    /\ hue_in_ranges(COLOR_DEFINITIONS[color_name], h)

\* is_color_match, for a color_name of the table
is_color_match(h, s, v, color_name) ==
    LET definition == COLOR_DEFINITIONS[color_name]
    IN IF ~sat_in_range(definition, s) THEN FALSE
       ELSE IF ~val_in_range(definition, v) THEN FALSE
       ELSE hue_in_ranges(definition, h)

\* the order in which hsv_to_color_name tries the names
CheckOrder ==
    << "white", "black", "gray",
       "red", "orange", "yellow", "green", "cyan", "blue", "purple" >>

\* hsv_to_color_name: the first name in the order that matches, else None
hsv_to_color_name(h, s, v, order) ==
    IF \E i \in DOMAIN order : is_color_match(h, s, v, order[i])
    THEN Str(order[CHOOSE i \in DOMAIN order :
                     /\ is_color_match(h, s, v, order[i])
                     /\ \A j \in 1..(i - 1) : ~is_color_match(h, s, v, order[j])])
    ELSE None

\* the three axes of a pixel and their largest values
Axes == {"hue", "saturation", "value"}
AxisMax(axis) ==
    CASE axis = "hue" -> MaxHue
      [] axis = "saturation" -> MaxSaturation
      [] axis = "value" -> MaxValue

\* the ends of the ranges the table gives for an axis
RangeEnds(axis) ==
    LET names == DOMAIN COLOR_DEFINITIONS
    IN CASE axis = "saturation" ->
              { COLOR_DEFINITIONS[c].sat_min : c \in names }
                \cup { COLOR_DEFINITIONS[c].sat_max : c \in names }
         [] axis = "value" ->
              { COLOR_DEFINITIONS[c].val_min : c \in names }
                \cup { COLOR_DEFINITIONS[c].val_max : c \in names }
         [] axis = "hue" ->
              UNION { { COLOR_DEFINITIONS[c].hue_ranges.items[i][k] :
                          i \in DOMAIN COLOR_DEFINITIONS[c].hue_ranges.items,
                          k \in 1..2 } :
                      c \in { n \in names : COLOR_DEFINITIONS[n].hue_ranges # None } }

\* the pixels values at which a range test of the table can change: both
\* ends of the axis, every range end and its two neighbours
EdgePoints(axis) ==
    ({0, AxisMax(axis)}
       \cup UNION { {e - 1, e, e + 1} : e \in RangeEnds(axis) })
    \cap (0..AxisMax(axis))

\* the range tests of all the colours on one axis, for the value x
AxisTests(axis, x) ==
    [ c \in DOMAIN COLOR_DEFINITIONS |->
        CASE axis = "hue" -> hue_in_ranges(COLOR_DEFINITIONS[c], x)
          [] axis = "saturation" -> sat_in_range(COLOR_DEFINITIONS[c], x)
          [] axis = "value" -> val_in_range(COLOR_DEFINITIONS[c], x) ]

\* a pixel is to be classified: one whose three values are edge points, or
\* any value of one axis that is to be compared with the edge points
ColorInput ==
    /\ calc = None
    /\ \/ \E h \in EdgePoints("hue"), s \in EdgePoints("saturation"),
             v \in EdgePoints("value") :
            calc' = [ op |-> "classify", h |-> h, s |-> s, v |-> v,
                      out |-> None, matches |-> {} ]
       \/ \E axis \in Axes :
          \E x \in 0..AxisMax(axis) :
            calc' = [ op |-> "axis", axis |-> axis, x |-> x, out |-> None ]
    /\ UNCHANGED << bvars, mvars, tvars >>

\* hsv_to_color_name classifies the pixel; is_color_match is also asked for
\* every name of the table
ClassifyPixel ==
    /\ calc # None
    /\ calc.op = "classify"
    /\ calc.out = None
    /\ calc' = [calc EXCEPT
                  !.out = List(<< hsv_to_color_name(calc.h, calc.s, calc.v,
                                                     CheckOrder) >>),
                  !.matches = { c \in DOMAIN COLOR_DEFINITIONS :
                                  is_color_match(calc.h, calc.s, calc.v, c) }]
    /\ UNCHANGED << bvars, mvars, tvars >>

\* the range tests of the value are compared with those of the edge points
CompareWithEdges ==
    /\ calc # None
    /\ calc.op = "axis"
    /\ calc.out = None
    /\ calc' = [calc EXCEPT !.out =
                  List(<< { e \in EdgePoints(calc.axis) :
                              AxisTests(calc.axis, e)
                                = AxisTests(calc.axis, calc.x) } >>)]
    /\ UNCHANGED << bvars, mvars, tvars >>

ColorNext == ColorInput \/ ClassifyPixel \/ CompareWithEdges

SpecColors == HistoryInit /\ [][ColorNext]_vars

\* the orders in which the names could be tried instead
OtherOrders ==
    { ColorNames,
      [i \in DOMAIN CheckOrder |-> CheckOrder[Len(CheckOrder) + 1 - i]] }

MaxMerged == 3

\* ROI.x2, ROI.y2, ROI.area
roi_x2(roi) == roi.x + roi.width
roi_y2(roi) == roi.y + roi.height
roi_area(roi) == roi.width * roi.height

\* ROI.intersects
roi_intersects(self, other) ==
    ~ ( \/ roi_x2(self) <= other.x
        \/ roi_x2(other) <= self.x
        \/ roi_y2(self) <= other.y
        \/ roi_y2(other) <= self.y )

\* ROI.intersection: None, or the rectangle both share
roi_intersection(self, other) ==
    IF ~roi_intersects(self, other) THEN None
    ELSE roi_handler_from_points(Max(self.x, other.x), Max(self.y, other.y),
                                 Min(roi_x2(self), roi_x2(other)),
                                 Min(roi_y2(self), roi_y2(other)))

\* ROI.union: the bounding rectangle of both
roi_union(self, other) ==
    roi_handler_from_points(Min(self.x, other.x), Min(self.y, other.y),
                            Max(roi_x2(self), roi_x2(other)),
                            Max(roi_y2(self), roi_y2(other)))

\* overlap thresholds, in tenths (0.5 is the default)
MergeThresholds == {0, 5, 10}

\* intersection.area / min(current.area, roi2.area) >= overlap_threshold,
\* with the threshold in tenths; a smaller area of 0 divides by zero
overlap_reaches(inter, current, roi2, threshold) ==
    IF Min(roi_area(current), roi_area(roi2)) = 0 THEN Raise("ZeroDivisionError")
    ELSE [ok |-> 10 * roi_area(inter)
                   >= threshold * Min(roi_area(current), roi_area(roi2))]

\* the for loop over j inside the while loop, from index j on (indices
\* count from 1): current grows by every unused later rectangle it overlaps
RECURSIVE merge_scan(_, _, _, _, _, _)
merge_scan(rois, threshold, i, j, current, used) ==
    IF j > Len(rois)
    THEN [current |-> current, used |-> used, merged_any |-> FALSE]
    ELSE IF j <= i \/ j \in used
    THEN merge_scan(rois, threshold, i, j + 1, current, used)
    ELSE LET inter == roi_intersection(current, rois[j])
         IN IF inter = None
            THEN merge_scan(rois, threshold, i, j + 1, current, used)
            ELSE LET reached == overlap_reaches(inter, current, rois[j], threshold)
                 IN IF IsRaise(reached) THEN reached
                    ELSE IF ~reached.ok
                    THEN merge_scan(rois, threshold, i, j + 1, current, used)
                    ELSE LET rest == merge_scan(rois, threshold, i, j + 1,
                                                roi_union(current, rois[j]),
                                                used \cup {j})
                         IN IF IsRaise(rest) THEN rest
                            ELSE [rest EXCEPT !.merged_any = TRUE]

\* while merged_any: scan again with the grown rectangle
RECURSIVE merge_while(_, _, _, _, _)
merge_while(rois, threshold, i, current, used) ==
    LET pass == merge_scan(rois, threshold, i, 1, current, used)
    IN IF IsRaise(pass) THEN pass
       ELSE IF pass.merged_any
       THEN merge_while(rois, threshold, i, pass.current, pass.used)
       ELSE pass

\* the outer for loop, from index i on
RECURSIVE merge_from(_, _, _, _, _)
merge_from(rois, threshold, i, merged, used) ==
    IF i > Len(rois) THEN List(merged)
    ELSE IF i \in used THEN merge_from(rois, threshold, i + 1, merged, used)
    ELSE LET grown == merge_while(rois, threshold, i, rois[i], used)
         IN IF IsRaise(grown) THEN grown
            ELSE merge_from(rois, threshold, i + 1,
                            Append(merged, grown.current), grown.used)

\* ROIHandler.merge_overlapping_rois
merge_overlapping_rois(rois, overlap_threshold) ==
    merge_from(rois, overlap_threshold, 1, << >>, {})

\* rectangles of positive width and height inside a MaxCoord square
MergeRectangles ==
    { r \in [x : 0..(MaxCoord - 1), y : 0..(MaxCoord - 1),
             width : 1..MaxCoord, height : 1..MaxCoord] :
        roi_x2(r) <= MaxCoord /\ roi_y2(r) <= MaxCoord }

\* a caller holds a list of rectangles and a threshold
MergeInput ==
    /\ calc = None
    /\ \E n \in 1..MaxMerged :
       \E rois \in [1..n -> MergeRectangles], threshold \in MergeThresholds :
         calc' = [ op |-> "merge", rois |-> rois, threshold |-> threshold,
                   out |-> None ]
    /\ UNCHANGED << bvars, mvars, tvars >>

\* merge_overlapping_rois(rois, overlap_threshold) returns
MergeOverlappingRois ==
    /\ calc # None
    /\ calc.op = "merge"
    /\ calc.out = None
    /\ calc' = [calc EXCEPT !.out = merge_overlapping_rois(calc.rois, calc.threshold)]
    /\ UNCHANGED << bvars, mvars, tvars >>

MergeNext == MergeInput \/ MergeOverlappingRois

SpecMerge == HistoryInit /\ [][MergeNext]_vars

\* two rectangles that intersect with an overlap ratio of at least the
\* threshold (in tenths)
StillOverlap(a, b, threshold) ==
    /\ roi_intersects(a, b)
    /\ 10 * roi_area(roi_intersection(a, b))
         >= threshold * Min(roi_area(a), roi_area(b))

\* C30: the list merge_overlapping_rois returns is a fixed point of merging:
\* no two of its rectangles intersect with an overlap ratio (intersection
\* area over the smaller area) of at least overlap_threshold
C30_MergedListIsFixedPoint ==
    ( calc # None /\ calc.op = "merge" /\ calc.out # None /\ ~IsRaise(calc.out) )
    => \A a, b \in DOMAIN calc.out.items :
         a # b => ~StillOverlap(calc.out.items[a], calc.out.items[b],
                                calc.threshold)

====
